---- MODULE Spec2Model ----
(***************************************************************************)
(* A state-machine model of the turbine container runtime:                 *)
(* TurbineRuntime (runtime.rs) with its ContainerRegistry (container.rs),  *)
(* NetworkManager (network.rs), ProcessManager (process.rs) and            *)
(* FilesystemManager (filesystem.rs).  Public operations run as concurrent *)
(* tasks; every step of an operation is the code between two lock          *)
(* acquisitions (the places where a tokio task can be suspended).          *)
(***************************************************************************)
EXTENDS Integers, Sequences, FiniteSets, TLC

\* ------------------------------------------------------------------ bounds
\* Number of container ids (UUIDs) Container::new can hand out.
MaxContainers == 2
\* Number of leader processes the operating system lets the runtime spawn.
MaxSpawns == 2
\* Number of calls of public operations in one run.
MaxCalls == 3

\* The tasks calling the runtime concurrently: two callers.
Tasks == {1, 2}
Ids == 1..MaxContainers
\* An id no Container::new ever produced.
UnknownId == MaxContainers + 1

\* Option::None for the pid field, and "no holder" for a lock.
None == 0

VARIABLES
    registry,           \* ContainerRegistry.containers: id -> Container
    fs_roots,           \* ids whose root directory exists on disk
    use_slirp4netns,    \* NetworkManager.use_slirp4netns
    network_config,     \* NetworkManager.network_config (its address families)
    allocated_ips,      \* NetworkManager.allocated_ips: id -> Seq(IpAddr)
    port_mappings,      \* NetworkManager.port_mappings: host port -> id
    container_ports,    \* NetworkManager.container_ports: id -> Seq(PortMapping)
    running_processes,  \* ProcessManager.running_processes: id -> Child (its pid)
    os_procs,           \* leader processes known to the OS: pid -> status
    next_id,            \* the next id Container::new generates
    next_pid,           \* the next pid the OS hands out
    locks,              \* the three RwLocks of TurbineRuntime
    task,               \* per task: the operation in progress and its locals
    calls,              \* the number of public operations called so far
    snap,               \* the state left by the last undisturbed successful cleanup
    probe               \* a ContainerConfig under validation, and the result it got

vars == <<registry, fs_roots, use_slirp4netns, network_config, allocated_ips, port_mappings,
          container_ports, running_processes, os_procs, next_id, next_pid,
          locks, task, calls, snap, probe>>

netVars == <<use_slirp4netns, network_config, allocated_ips, port_mappings, container_ports>>
procVars == <<running_processes, os_procs, next_pid>>

\* --------------------------------------------------------------- helpers
Put(f, k, v) == [x \in DOMAIN f \cup {k} |-> IF x = k THEN v ELSE f[x]]
Del(f, k) == [x \in DOMAIN f \ {k} |-> f[x]]
EmptyMap == [x \in {} |-> None]
Range(s) == {s[i] : i \in DOMAIN s}

\* ------------------------------------------------------------ error kinds
Ok == [kind |-> "Ok", msg |-> ""]
Err(kind, msg) == [kind |-> kind, msg |-> msg]
NoResult == [kind |-> "none", msg |-> ""]

\* ---------------------------------------------------------------- configs
PortMapping(h, c) == [host_port |-> h, container_port |-> c]

Config(name, ports) == [name |-> name, ports |-> ports]

\* The configurations callers pass to create.
Configs ==
    { Config("web", <<PortMapping(8080, 8080)>>),
      Config("api", <<PortMapping(9090, 8080), PortMapping(8080, 8080)>>),
      Config("", <<>>),
      Config("web", <<PortMapping(80, 80)>>) }

NoConfig == Config("", <<>>)

\* ContainerConfig::default followed by set_web_defaults(port), as
\* create_web_container builds it (runtime.rs 229-237).
WebConfig(name, port) == Config(name, <<PortMapping(port, 8080)>>)

\* SecurityManager::validate_network_security (the part of
\* validate_container_security the modelled configuration fields reach).
validate_container_security(cfg) ==
    IF \E i \in DOMAIN cfg.ports : cfg.ports[i].host_port < 1024
    THEN Err("SecurityError", "Privileged port is not allowed in rootless mode")
    ELSE Ok

\* ContainerConfig::validate; its anyhow error becomes RuntimeError through
\* From<anyhow::Error> for TurbineError.
validate(cfg) ==
    IF cfg.name = ""
    THEN Err("RuntimeError", "Container name cannot be empty")
    ELSE IF \E i \in DOMAIN cfg.ports :
                cfg.ports[i].host_port = 0 \/ cfg.ports[i].container_port = 0
    THEN Err("RuntimeError", "Invalid port mapping")
    ELSE Ok

\* ---------------------------------------------------------------- network
IpAddr(family, host) == [family |-> family, host |-> host]

\* Every address held by some container: allocated_ips.values().
TakenIps(ips) == UNION {Range(ips[c]) : c \in DOMAIN ips}

\* Whether some container holds the address:
\* allocated_ips.values().any(|ips| ips.contains(&ip)).
IsTaken(ips, addr) == \E c \in DOMAIN ips : addr \in Range(ips[c])

\* The number of values of the scan's counter: ip_suffix is a u8, host_suffix
\* a u16.
CounterSize(family) == IF family = "v4" THEN 256 ELSE 65536

\* An iteration that never gives up: the counter is only ever incremented.
ScanStep_NoStop(ips, family, s, stop) ==
    IF ~IsTaken(ips, IpAddr(family, s)) THEN [at |-> "found", next |-> s]
    ELSE [at |-> "scanning", next |-> (s + 1) % CounterSize(family)]

\* One iteration of the scan loop with its counter at s: the candidate is
\* free ("found"), or the counter is incremented, in its width, and either
\* has reached stop ("exhausted") or the loop goes round ("scanning").
ScanStep(ips, family, s, stop) ==
    IF ~IsTaken(ips, IpAddr(family, s)) THEN [at |-> "found", next |-> s]
    ELSE LET next == (s + 1) % CounterSize(family)
         IN IF next = stop THEN [at |-> "exhausted", next |-> next]
            ELSE [at |-> "scanning", next |-> next]

\* A scan that returns its first candidate without looking at what is taken.
ScanFree_First(ips, family, s, stop) == s

\* The scan loop of NetworkManager::allocate_ipv4 / allocate_ipv6: the first
\* host part from s upward that is not taken; -1 when the counter reaches
\* stop (255 for the u8 suffix, 65535 for the u16 one) without finding one.
RECURSIVE ScanFree(_, _, _, _)
ScanFree(ips, family, s, stop) ==
    LET it == ScanStep(ips, family, s, stop)
    IN IF it.at = "found" THEN s
       ELSE IF it.at = "exhausted" THEN -1
       ELSE ScanFree(ips, family, it.next, stop)

\* allocate_ipv4 with its scan started at host part 3.
allocate_ipv4_FromThree(ips, id) ==
    IF id \in DOMAIN ips /\ \E a \in Range(ips[id]) : a.family = "v4"
    THEN CHOOSE a \in Range(ips[id]) : a.family = "v4"
    ELSE IpAddr("v4", ScanFree(ips, "v4", 3, 255))

\* NetworkManager::allocate_ipv4: the address, or host = -1 on exhaustion.
allocate_ipv4(ips, id) ==
    IF id \in DOMAIN ips /\ \E a \in Range(ips[id]) : a.family = "v4"
    THEN CHOOSE a \in Range(ips[id]) : a.family = "v4"
    ELSE IpAddr("v4", ScanFree(ips, "v4", 2, 255))

\* NetworkManager::allocate_ipv6
allocate_ipv6(ips, id) ==
    IF id \in DOMAIN ips /\ \E a \in Range(ips[id]) : a.family = "v6"
    THEN CHOOSE a \in Range(ips[id]) : a.family = "v6"
    ELSE IpAddr("v6", ScanFree(ips, "v6", 2, 65535))

\* NetworkManager::allocate_ips: [ips: the new allocated_ips, res].
allocate_ips(ips, cfg, id) ==
    IF id \in DOMAIN ips THEN [ips |-> ips, res |-> Ok]
    ELSE LET v4 == allocate_ipv4(ips, id)
             v6 == allocate_ipv6(ips, id)
             want == IF cfg = "IPv4" THEN <<v4>>
                     ELSE IF cfg = "IPv6" THEN <<v6>> ELSE <<v4, v6>>
         IN IF cfg # "IPv6" /\ v4.host = -1
            THEN [ips |-> ips,
                  res |-> Err("NetworkError", "No available IPv4 addresses in subnet")]
            ELSE IF cfg # "IPv4" /\ v6.host = -1
            THEN [ips |-> ips,
                  res |-> Err("NetworkError", "No available IPv6 addresses in subnet")]
            ELSE [ips |-> Put(ips, id, want), res |-> Ok]

\* The port loop of NetworkManager::setup_slirp4netns_network from port i on:
\* [pm: the new port_mappings, res]; ports claimed before a conflict stay.
RECURSIVE ClaimPorts(_, _, _, _)
ClaimPorts(pm, ports, i, id) ==
    IF i > Len(ports) THEN [pm |-> pm, res |-> Ok]
    ELSE IF ports[i].host_port \in DOMAIN pm
    THEN [pm |-> pm,
          res |-> Err("NetworkError",
                      "Port " \o ToString(ports[i].host_port) \o " is already in use")]
    ELSE ClaimPorts(Put(pm, ports[i].host_port, id), ports, i + 1, id)

\* NetworkManager::cleanup_container_network, on port_mappings.
ReleasePorts(pm, id) ==
    IF use_slirp4netns
    THEN [p \in {q \in DOMAIN pm : pm[q] # id} |-> pm[p]]
    ELSE pm

\* -------------------------------------------------------------- Container
\* Container::new
NewContainer(cfg) ==
    [config |-> cfg, state |-> "Created", pid |-> None,
     started_at |-> FALSE, stopped_at |-> FALSE]

\* is_running that also counts a Paused container as running.
is_running_OrPaused(c) == c.state \in {"Running", "Paused"}

\* Container::is_running
is_running(c) == c.state = "Running"

\* set_state without line 61: Stopped keeps the pid.
set_state_KeepsPid(c, state) ==
    IF state = "Running"
    THEN [c EXCEPT !.started_at = TRUE, !.stopped_at = FALSE, !.state = state]
    ELSE [c EXCEPT !.stopped_at = (state = "Stopped") \/ @, !.state = state]

\* set_state without line 57: Running leaves stopped_at as it was.
set_state_KeepsStoppedAt(c, state) ==
    IF state = "Running"
    THEN [c EXCEPT !.started_at = TRUE, !.state = state]
    ELSE IF state = "Stopped"
    THEN [c EXCEPT !.stopped_at = TRUE, !.pid = None, !.state = state]
    ELSE [c EXCEPT !.state = state]

\* Container::set_state; a timestamp is modelled by whether it is Some.
set_state(c, state) ==
    IF state = "Running"
    THEN [c EXCEPT !.started_at = TRUE, !.stopped_at = FALSE, !.state = state]
    ELSE IF state = "Stopped"
    THEN [c EXCEPT !.stopped_at = TRUE, !.pid = None, !.state = state]
    ELSE [c EXCEPT !.state = state]

\* Container::set_pid
set_pid(c, pid) == [c EXCEPT !.pid = pid]

\* The state a lookup of id in the registry sees ("absent": not found).
StateOf(id) == IF id \in DOMAIN registry THEN registry[id].state ELSE "absent"

\* ------------------------------------------------------------------ locks
FreeLock == [w |-> None, r |-> {}]
CanRead(l) == locks[l].w = None
CanWrite(l) == locks[l].w = None /\ locks[l].r = {}

\* ------------------------------------------------------------------ tasks
Idle ==
    [pc |-> "idle", op |-> "none", id |-> None, force |-> FALSE,
     cfg |-> NoConfig, seen |-> "none", res |-> NoResult, solo |-> FALSE,
     child |-> None, todo |-> {}, snapshot |-> EmptyMap, before |-> <<>>]

\* The record of a task whose operation ends with result res; the caller
\* reads the result and the task becomes idle again in Return.
Done(rec, res) == [rec EXCEPT !.pc = "ret", !.res = res]

At(rec, pc) == [rec EXCEPT !.pc = pc]

\* Task t goes on as rec.  When the step is the first of a new call, the
\* operations in progress on the other tasks are no longer alone.
SetTask(t, rec) ==
    task' = [u \in Tasks |->
               IF u = t THEN rec
               ELSE IF task[t].pc = "idle" /\ task[u].pc # "idle"
               THEN [task[u] EXCEPT !.solo = FALSE]
               ELSE task[u]]

\* An operation that has returned hands its result to its caller before
\* anything else happens: taking the result changes nothing another task or
\* the environment reads.
Returning == \E t \in Tasks : task[t].pc = "ret"

\* Task t is at the step named pc of its operation and can take it.
AtPc(t, pc) == ~Returning /\ task[t].pc = pc

\* The state compared by "cleanup; cleanup == cleanup".
Observable ==
    <<registry, allocated_ips, port_mappings, container_ports,
      running_processes, fs_roots>>

\* The record of a call that task t makes now: op(id, force) or op(cfg).
NewCall(t, op, id, force, cfg) ==
    [Idle EXCEPT !.op = op, !.id = id, !.force = force, !.cfg = cfg,
                 !.solo = \A v \in Tasks \ {t} : task[v].pc = "idle",
                 !.before = IF op = "cleanup" THEN snap ELSE <<>>]

\* The calls task t can make now.  A call starts with the first step of its
\* operation: a caller still waiting for the operation's first lock has done
\* nothing yet.
Calls(t, ops, ids, forces, cfgs) ==
    IF AtPc(t, "idle") /\ calls < MaxCalls
    THEN {NewCall(t, op, id, force, cfg) :
             op \in ops, id \in ids, force \in forces, cfg \in cfgs}
    ELSE {}

\* The record of task t if it is at step pc of an operation in progress.
Cur(t, pc) == IF AtPc(t, pc) THEN {task[t]} ELSE {}

\* The ids a caller passes: those create_container has handed out, and one
\* that it never has.
CallIds == 1..(next_id - 1) \cup {UnknownId}

\* Bookkeeping of a step of task t: the first step of a call is counted; a
\* cleanup that returned Ok with no other operation in progress records the
\* state it left, and any other call forgets that record.
Account(t) ==
    /\ probe' = probe
    /\ calls' = IF task[t].pc = "idle" THEN calls + 1 ELSE calls
    /\ snap' = IF task'[t].op # "cleanup" THEN <<>>
               ELSE IF task'[t].pc # "ret" THEN snap
               ELSE IF task'[t].res = Ok /\ task'[t].solo THEN Observable'
               ELSE <<>>

Init ==
    /\ registry = EmptyMap
    /\ fs_roots = {}
    /\ use_slirp4netns \in BOOLEAN
    /\ network_config = "IPv4"
    /\ allocated_ips = EmptyMap
    /\ port_mappings = EmptyMap
    /\ container_ports = EmptyMap
    /\ running_processes = EmptyMap
    /\ os_procs = EmptyMap
    /\ next_id = 1
    /\ next_pid = 1
    /\ locks = [l \in {"registry", "network", "process"} |-> FreeLock]
    /\ task = [t \in Tasks |-> Idle]
    /\ calls = 0
    /\ snap = <<>>
    /\ probe = <<>>

\* ------------------------------------------------------------- operations
\* The caller has read the result.
Return(t) ==
    /\ task[t].pc = "ret"
    /\ task' = [task EXCEPT ![t] = Idle]
    /\ UNCHANGED <<registry, fs_roots, netVars, procVars, next_id, calls, locks, snap, probe>>

\* ---------------------------------------------------------- create_container
\* runtime.rs 47-58: validation, Container::new, and the three filesystem
\* steps (create_container_root, setup_volumes, create_working_directory).
CreateBegin(t) ==
    \E cur \in Cur(t, "create_begin")
                   \cup Calls(t, {"create"}, {None}, {FALSE}, Configs)
                   \cup Calls(t, {"deploy"}, {None}, {FALSE}, {WebConfig("web", 8080)}) :
        /\ LET cfg == cur.cfg
               sec == validate_container_security(cfg)
               val == validate(cfg)
           IN IF sec # Ok
              THEN /\ SetTask(t, Done(cur, sec))
                   /\ UNCHANGED <<fs_roots, next_id>>
              ELSE IF val # Ok
              THEN /\ SetTask(t, Done(cur, val))
                   /\ UNCHANGED <<fs_roots, next_id>>
              ELSE /\ next_id <= MaxContainers
                   /\ next_id' = next_id + 1
                   /\ \/ /\ fs_roots' = fs_roots \cup {next_id}
                         /\ SetTask(t, [cur EXCEPT !.pc = "create_net", !.id = next_id])
                      \/ \* create_container_root fails before the root exists
                         /\ fs_roots' = fs_roots
                         /\ SetTask(t, Done([cur EXCEPT !.id = next_id],
                                            Err("IoError", "create_dir_all")))
                      \/ \* a later filesystem step fails: the root stays behind
                         /\ fs_roots' = fs_roots \cup {next_id}
                         /\ SetTask(t, Done([cur EXCEPT !.id = next_id],
                                            Err("IoError", "create_working_directory")))
        /\ UNCHANGED <<registry, netVars, procVars, locks>>
        /\ Account(t)

\* NetworkManager::setup_container_network: [ips, pm, cp, res].
setup_container_network(id, cfg) ==
    LET cp == Put(container_ports, id, cfg.ports)
        al == allocate_ips(allocated_ips, network_config, id)
        cl == ClaimPorts(port_mappings, cfg.ports, 1, id)
    IN IF al.res # Ok
       THEN [ips |-> al.ips, pm |-> port_mappings, cp |-> cp, res |-> al.res]
       ELSE IF use_slirp4netns
       THEN [ips |-> al.ips, pm |-> cl.pm, cp |-> cp, res |-> cl.res]
       ELSE [ips |-> al.ips, pm |-> port_mappings, cp |-> cp, res |-> Ok]

\* create_container registering the container before the network setup, whose
\* failure then leaves the record behind.
CreateNet_RegistersFirst(t) ==
    \E cur \in Cur(t, "create_net") :
        /\ CanWrite("network")
        /\ registry' = Put(registry, cur.id, NewContainer(cur.cfg))
        /\ LET r == setup_container_network(cur.id, cur.cfg)
           IN /\ allocated_ips' = r.ips
              /\ port_mappings' = r.pm
              /\ container_ports' = r.cp
              /\ SetTask(t, IF r.res # Ok THEN Done(cur, r.res) ELSE At(cur, "create_reg"))
        /\ UNCHANGED <<fs_roots, use_slirp4netns, network_config, procVars, next_id, locks>>
        /\ Account(t)

\* runtime.rs 60-63: network.write(), setup_container_network, drop.
CreateNet(t) ==
    \E cur \in Cur(t, "create_net") :
        /\ CanWrite("network")
        /\ LET r == setup_container_network(cur.id, cur.cfg)
           IN /\ allocated_ips' = r.ips
              /\ port_mappings' = r.pm
              /\ container_ports' = r.cp
              /\ IF r.res # Ok
                 THEN SetTask(t, Done(cur, r.res))
                 ELSE \/ SetTask(t, At(cur, "create_reg"))
                      \/ \* bridge mode: the nsenter commands that create and
                         \* configure the veth pair fail
                         /\ ~use_slirp4netns
                         /\ SetTask(t, Done(cur,
                                Err("NetworkError", "Failed to create veth pair in namespace")))
        /\ UNCHANGED <<registry, fs_roots, use_slirp4netns, network_config, procVars,
                       next_id, locks>>
        /\ Account(t)

\* Where the caller of create_container goes once the container is
\* registered: deploy_web_app (runtime.rs 239-245) starts it.
AfterCreate(rec) ==
    IF rec.op = "deploy" THEN At(rec, "start_acquire") ELSE Done(rec, Ok)

\* runtime.rs 65-69: registry.write(), register.
CreateReg(t) ==
    \E cur \in Cur(t, "create_reg") :
        /\ CanWrite("registry")
        /\ registry' = Put(registry, cur.id, NewContainer(cur.cfg))
        /\ SetTask(t, AfterCreate(cur))
        /\ UNCHANGED <<fs_roots, netVars, procVars, next_id, locks>>
        /\ Account(t)

\* ------------------------------------------------------------ lock updates
Hold(l, t) == [locks EXCEPT ![l].w = t]

\* Release that drops nothing.
Release_Nothing(ls, l) == ls

\* The write guard of lock l is dropped.
Release(ls, l) == [ls EXCEPT ![l].w = None]

\* ----------------------------------------------------------- start_container
\* SecurityManager::create_secure_environment is called by start_container
\* but its body is not part of the source; it either succeeds or aborts the
\* start with a SecurityError.
create_secure_environment_results ==
    {Ok, Err("SecurityError", "Failed to set up the secure environment")}

\* The Child dropped without being waited for: a live process keeps running,
\* an exited one is reaped.
DropChild(procs, pid) ==
    IF pid \in DOMAIN procs /\ procs[pid] = "exited" THEN Del(procs, pid) ELSE procs

\* runtime.rs 73-80: registry.write(), lookup, state check,
\* create_secure_environment.
StartAcquire(t) ==
    \E cur \in Cur(t, "start_acquire")
                   \cup Calls(t, {"start"}, CallIds, {FALSE}, {NoConfig}) :
        /\ CanWrite("registry")
        /\ LET id == cur.id
               rec == [cur EXCEPT !.seen = StateOf(id)]
           IN IF id \notin DOMAIN registry
              THEN /\ SetTask(t, Done(rec, Err("ContainerError", "Container not found")))
                   /\ UNCHANGED locks
              ELSE IF is_running(registry[id])
              THEN /\ SetTask(t, Done(rec, Err("ContainerError", "Container is already running")))
                   /\ UNCHANGED locks
              ELSE \E r \in create_secure_environment_results :
                      IF r = Ok
                      THEN /\ SetTask(t, At(rec, "start_process"))
                           /\ locks' = Hold("registry", t)
                      ELSE /\ SetTask(t, Done(rec, r))
                           /\ UNCHANGED locks
        /\ UNCHANGED <<registry, fs_roots, netVars, procVars, next_id>>
        /\ Account(t)

\* runtime.rs 82-88 with ProcessManager::start_container: process.write(),
\* spawn, insert the Child, set_pid, set_state(Running); both guards drop.
StartProcess(t) ==
    \E cur \in Cur(t, "start_process") :
        /\ CanWrite("process")
        /\ LET id == cur.id
           IN \/ \* cmd.spawn() fails
                 /\ SetTask(t, Done(cur, Err("ProcessError", "Failed to spawn process")))
                 /\ UNCHANGED <<registry, procVars>>
              \/ /\ next_pid <= MaxSpawns
                 /\ next_pid' = next_pid + 1
                 /\ os_procs' =
                      Put(IF id \in DOMAIN running_processes
                          THEN DropChild(os_procs, running_processes[id])
                          ELSE os_procs,
                          next_pid, "running")
                 /\ running_processes' = Put(running_processes, id, next_pid)
                 /\ registry' = [registry EXCEPT
                                   ![id] = set_state(set_pid(@, next_pid), "Running")]
                 /\ SetTask(t, Done(cur, Ok))
        /\ locks' = Release(locks, "registry")
        /\ UNCHANGED <<fs_roots, netVars, next_id>>
        /\ Account(t)

\* ------------------------------------------------------------ stop_container
\* The force flag of the stop_container call of rec: restart stops
\* gracefully, remove (and cleanup through it) stops by force.
StopForce(rec) ==
    CASE rec.op = "stop" -> rec.force
      [] rec.op = "restart" -> FALSE
      [] OTHER -> TRUE

\* AfterStop, but restart_container goes on to its sleep and start whatever
\* the stop returned.
AfterStop_RestartIgnoresStopError(rec, res) ==
    CASE rec.op = "stop" -> Done(rec, res)
      [] rec.op = "restart" -> At(rec, "restart_sleep")
      [] OTHER ->
            IF res = Ok THEN At(rec, "remove_net") ELSE Done(rec, res)

\* Where the caller of stop_container goes on its result: restart_container
\* (runtime.rs 108-110) and remove_container (runtime.rs 159-161) propagate
\* an error with `?`.
AfterStop(rec, res) ==
    CASE rec.op = "stop" -> Done(rec, res)
      [] rec.op = "restart" ->
            IF res = Ok THEN At(rec, "restart_sleep") ELSE Done(rec, res)
      [] OTHER ->
            IF res = Ok THEN At(rec, "remove_net") ELSE Done(rec, res)

\* runtime.rs 92-97: registry.write(), lookup, state check.
StopAcquire(t) ==
    \E cur \in Cur(t, "stop_acquire")
                   \cup Calls(t, {"stop"}, CallIds, BOOLEAN, {NoConfig})
                   \cup Calls(t, {"restart"}, CallIds, {FALSE}, {NoConfig}) :
        /\ CanWrite("registry")
        /\ LET id == cur.id
               rec == IF cur.op \in {"stop", "restart"}
                      THEN [cur EXCEPT !.seen = StateOf(id)] ELSE cur
           IN IF id \notin DOMAIN registry
              THEN /\ SetTask(t, AfterStop(rec, Err("ContainerError", "Container not found")))
                   /\ UNCHANGED locks
              ELSE IF ~is_running(registry[id])
              THEN /\ SetTask(t, AfterStop(rec, Err("ContainerError", "Container is not running")))
                   /\ UNCHANGED locks
              ELSE /\ SetTask(t, At(rec, "stop_process"))
                   /\ locks' = Hold("registry", t)
        /\ UNCHANGED <<registry, fs_roots, netVars, procVars, next_id>>
        /\ Account(t)

\* runtime.rs 99-104 with ProcessManager::stop_container (process.rs 119-139):
\* process.write(); the Child is taken out of running_processes first; with
\* force it is killed, otherwise it gets SIGTERM and is waited for.
StopProcess(t) ==
    \E cur \in Cur(t, "stop_process") :
        /\ CanWrite("process")
        /\ LET id == cur.id
               pid == running_processes[id]
           IN IF id \notin DOMAIN running_processes
              THEN /\ registry' = [registry EXCEPT ![id] = set_state(@, "Stopped")]
                   /\ SetTask(t, AfterStop(cur, Ok))
                   /\ locks' = Release(locks, "registry")
                   /\ UNCHANGED procVars
              ELSE /\ running_processes' = Del(running_processes, id)
                   /\ next_pid' = next_pid
                   /\ IF StopForce(cur)
                      THEN \/ \* child.kill() succeeds: killed and reaped
                              /\ os_procs' = Del(os_procs, pid)
                              /\ registry' = [registry EXCEPT ![id] = set_state(@, "Stopped")]
                              /\ SetTask(t, AfterStop(cur, Ok))
                              /\ locks' = Release(locks, "registry")
                           \/ \* child.kill() fails: the Child is dropped
                              /\ os_procs' = DropChild(os_procs, pid)
                              /\ registry' = registry
                              /\ SetTask(t, AfterStop(cur,
                                     Err("ProcessError", "Failed to kill process")))
                              /\ locks' = Release(locks, "registry")
                      ELSE \* SIGTERM sent; the task waits holding both locks
                           /\ os_procs' = os_procs
                           /\ registry' = registry
                           /\ SetTask(t, [cur EXCEPT !.pc = "stop_wait", !.child = pid])
                           /\ locks' = Hold("process", t)
        /\ UNCHANGED <<fs_roots, netVars, next_id>>
        /\ Account(t)

\* StopWait, but the process guard outlives stop_container.
StopWait_KeepsProcessLock(t) ==
    \E cur \in Cur(t, "stop_wait") :
        /\ LET id == cur.id
               pid == cur.child
               rec == [cur EXCEPT !.child = None]
           IN \/ /\ os_procs' = Del(os_procs, pid)
                 /\ registry' = [registry EXCEPT ![id] = set_state(@, "Stopped")]
                 /\ SetTask(t, AfterStop(rec, Ok))
              \/ /\ pid \in DOMAIN os_procs /\ os_procs[pid] # "exited"
                 /\ UNCHANGED <<os_procs, registry>>
                 /\ SetTask(t, AfterStop(rec,
                        Err("ProcessError", "Process did not terminate gracefully")))
        /\ locks' = Release(locks, "registry")
        /\ UNCHANGED <<fs_roots, netVars, running_processes, next_pid, next_id>>
        /\ Account(t)

\* StopWait, but a timed-out wait is followed by set_state(Stopped) all the
\* same.
StopWait_StopsOnTimeout(t) ==
    \E cur \in Cur(t, "stop_wait") :
        /\ LET id == cur.id
               pid == cur.child
               rec == [cur EXCEPT !.child = None]
           IN \/ /\ os_procs' = Del(os_procs, pid)
                 /\ registry' = [registry EXCEPT ![id] = set_state(@, "Stopped")]
                 /\ SetTask(t, AfterStop(rec, Ok))
              \/ /\ pid \in DOMAIN os_procs /\ os_procs[pid] # "exited"
                 /\ os_procs' = os_procs
                 /\ registry' = [registry EXCEPT ![id] = set_state(@, "Stopped")]
                 /\ SetTask(t, AfterStop(rec,
                        Err("ProcessError", "Process did not terminate gracefully")))
        /\ locks' = Release(Release(locks, "process"), "registry")
        /\ UNCHANGED <<fs_roots, netVars, running_processes, next_pid, next_id>>
        /\ Account(t)

\* process.rs 128-133: the wait ends because the leader exited, or the
\* 10-second timeout ends it while the leader is still alive.
StopWait(t) ==
    \E cur \in Cur(t, "stop_wait") :
        /\ LET id == cur.id
               pid == cur.child
               rec == [cur EXCEPT !.child = None]
           IN \/ /\ os_procs' = Del(os_procs, pid)
                 /\ registry' = [registry EXCEPT ![id] = set_state(@, "Stopped")]
                 /\ SetTask(t, AfterStop(rec, Ok))
              \/ /\ pid \in DOMAIN os_procs /\ os_procs[pid] # "exited"
                 /\ UNCHANGED <<os_procs, registry>>
                 /\ SetTask(t, AfterStop(rec,
                        Err("ProcessError", "Process did not terminate gracefully")))
        /\ locks' = Release(Release(locks, "process"), "registry")
        /\ UNCHANGED <<fs_roots, netVars, running_processes, next_pid, next_id>>
        /\ Account(t)

\* --------------------------------------------------------- restart_container
\* runtime.rs 109: the one-second sleep between the stop and the start.
RestartSleep(t) ==
    \E cur \in Cur(t, "restart_sleep") :
        /\ SetTask(t, At(cur, "start_acquire"))
        /\ UNCHANGED <<registry, fs_roots, netVars, procVars, next_id, locks>>
        /\ Account(t)

\* ------------------------------------------------- pause / resume_container
\* runtime.rs 114-119: registry.write(), lookup, state check.
PauseAcquire(t) ==
    \E cur \in Cur(t, "pause_acquire")
                   \cup Calls(t, {"pause"}, CallIds, {FALSE}, {NoConfig}) :
        /\ CanWrite("registry")
        /\ LET id == cur.id
               rec == [cur EXCEPT !.seen = StateOf(id)]
           IN IF id \notin DOMAIN registry
              THEN /\ SetTask(t, Done(rec, Err("ContainerError", "Container not found")))
                   /\ UNCHANGED locks
              ELSE IF ~is_running(registry[id])
              THEN /\ SetTask(t, Done(rec, Err("ContainerError", "Container is not running")))
                   /\ UNCHANGED locks
              ELSE /\ SetTask(t, At(rec, "pause_process"))
                   /\ locks' = Hold("registry", t)
        /\ UNCHANGED <<registry, fs_roots, netVars, procVars, next_id>>
        /\ Account(t)

\* The effect of a signal on the leader a Child of running_processes names.
Signal(procs, id, from, to) ==
    IF id \in DOMAIN running_processes
       /\ running_processes[id] \in DOMAIN procs
       /\ procs[running_processes[id]] = from
    THEN [procs EXCEPT ![running_processes[id]] = to]
    ELSE procs

\* runtime.rs 121-126 with ProcessManager::pause_container: process.read(),
\* SIGSTOP to the Child's pid if there is a Child, set_state(Paused).
PauseProcess(t) ==
    \E cur \in Cur(t, "pause_process") :
        /\ CanRead("process")
        /\ os_procs' = Signal(os_procs, cur.id, "running", "stopped")
        /\ registry' = [registry EXCEPT ![cur.id] = set_state(@, "Paused")]
        /\ SetTask(t, Done(cur, Ok))
        /\ locks' = Release(locks, "registry")
        /\ UNCHANGED <<fs_roots, netVars, running_processes, next_pid, next_id>>
        /\ Account(t)

\* runtime.rs 130-135: registry.write(), lookup, state check.
ResumeAcquire(t) ==
    \E cur \in Cur(t, "resume_acquire")
                   \cup Calls(t, {"resume"}, CallIds, {FALSE}, {NoConfig}) :
        /\ CanWrite("registry")
        /\ LET id == cur.id
               rec == [cur EXCEPT !.seen = StateOf(id)]
           IN IF id \notin DOMAIN registry
              THEN /\ SetTask(t, Done(rec, Err("ContainerError", "Container not found")))
                   /\ UNCHANGED locks
              ELSE IF registry[id].state # "Paused"
              THEN /\ SetTask(t, Done(rec, Err("ContainerError", "Container is not paused")))
                   /\ UNCHANGED locks
              ELSE /\ SetTask(t, At(rec, "resume_process"))
                   /\ locks' = Hold("registry", t)
        /\ UNCHANGED <<registry, fs_roots, netVars, procVars, next_id>>
        /\ Account(t)

\* runtime.rs 137-142 with ProcessManager::resume_container: process.read(),
\* SIGCONT, set_state(Running).
ResumeProcess(t) ==
    \E cur \in Cur(t, "resume_process") :
        /\ CanRead("process")
        /\ os_procs' = Signal(os_procs, cur.id, "stopped", "running")
        /\ registry' = [registry EXCEPT ![cur.id] = set_state(@, "Running")]
        /\ SetTask(t, Done(cur, Ok))
        /\ locks' = Release(locks, "registry")
        /\ UNCHANGED <<fs_roots, netVars, running_processes, next_pid, next_id>>
        /\ Account(t)

\* ---------------------------------------------------------- remove_container
\* The force flag of the remove_container call of rec: cleanup removes
\* by force (runtime.rs 310).
RemoveForce(rec) == IF rec.op = "cleanup" THEN TRUE ELSE rec.force

\* Where the caller of remove_container goes on its result: cleanup
\* (runtime.rs 308-314) goes on with its loop, and propagates an error.
AfterRemove(rec, res) ==
    IF rec.op = "cleanup" /\ res = Ok THEN At(rec, "cleanup_loop") ELSE Done(rec, res)

\* runtime.rs 146-161: registry.read(), lookup, the running-without-force
\* check, the clone, drop; a clone that is running is stopped by force first.
RemoveCheck(t) ==
    \E cur \in Cur(t, "remove_check")
                   \cup Calls(t, {"remove"}, CallIds, BOOLEAN, {NoConfig}) :
        /\ CanRead("registry")
        /\ LET id == cur.id
               rec == [cur EXCEPT !.seen = StateOf(id)]
           IN IF id \notin DOMAIN registry
              THEN SetTask(t, AfterRemove(rec, Err("ContainerError", "Container not found")))
              ELSE IF is_running(registry[id]) /\ ~RemoveForce(cur)
              THEN SetTask(t, AfterRemove(rec, Err("ContainerError",
                       "Container is running. Use force=true to remove running container")))
              ELSE IF is_running(registry[id])
              THEN SetTask(t, At(rec, "stop_acquire"))
              ELSE SetTask(t, At(rec, "remove_net"))
        /\ UNCHANGED <<registry, fs_roots, netVars, procVars, next_id, locks>>
        /\ Account(t)

\* cleanup_container without the exists() check of line 106.
cleanup_container_NoExistsCheck(roots, id) ==
    {[roots |-> roots \ {id}, res |-> Ok],
     [roots |-> roots, res |-> Err("IoError", "remove_dir_all")]}

\* FilesystemManager::cleanup_container: the outcomes [roots, res].  A root
\* that exists is unmounted and deleted, which can fail; one that does not
\* exist is left alone.
cleanup_container(roots, id) ==
    {[roots |-> roots \ {id}, res |-> Ok]}
    \cup IF id \in roots
         THEN {[roots |-> roots, res |-> Err("IoError", "remove_dir_all")]}
         ELSE {}

\* NetworkManager::cleanup_container_network: [ips, pm, cp].
cleanup_container_network(id) ==
    [ips |-> Del(allocated_ips, id),
     pm |-> ReleasePorts(port_mappings, id),
     cp |-> Del(container_ports, id)]

\* runtime.rs 163-168: network.write(), cleanup_container_network, drop, then
\* FilesystemManager::cleanup_container, which deletes the root if it exists.
RemoveNet(t) ==
    \E cur \in Cur(t, "remove_net") :
        /\ CanWrite("network")
        /\ LET id == cur.id
               n == cleanup_container_network(id)
           IN /\ allocated_ips' = n.ips
              /\ port_mappings' = n.pm
              /\ container_ports' = n.cp
              /\ \E f \in cleanup_container(fs_roots, id) :
                    /\ fs_roots' = f.roots
                    /\ SetTask(t, IF f.res = Ok THEN At(cur, "remove_reg")
                                  ELSE AfterRemove(cur, f.res))
        /\ UNCHANGED <<registry, use_slirp4netns, network_config, procVars, next_id, locks>>
        /\ Account(t)

\* runtime.rs 170-174: registry.write(), remove.
RemoveReg(t) ==
    \E cur \in Cur(t, "remove_reg") :
        /\ CanWrite("registry")
        /\ registry' = Del(registry, cur.id)
        /\ SetTask(t, AfterRemove(cur, Ok))
        /\ UNCHANGED <<fs_roots, netVars, procVars, next_id, locks>>
        /\ Account(t)

\* ------------------------------------------------------ logs / exec / stats
\* RunningCheck without the is_running test.
RunningCheck_NoStateCheck(id) ==
    IF id \notin DOMAIN registry THEN Err("ContainerError", "Container not found")
    ELSE Ok

\* The check the three read-only operations share: registry.read(), lookup,
\* is_running, drop.  The error of the check, or Ok.
RunningCheck(id) ==
    IF id \notin DOMAIN registry THEN Err("ContainerError", "Container not found")
    ELSE IF ~is_running(registry[id]) THEN Err("ContainerError", "Container is not running")
    ELSE Ok

\* runtime.rs 192-199
LogsCheck(t) ==
    \E cur \in Cur(t, "logs_check")
                   \cup Calls(t, {"logs"}, CallIds, {FALSE}, {NoConfig}) :
        /\ CanRead("registry")
        /\ LET rec == [cur EXCEPT !.seen = StateOf(cur.id)]
               chk == RunningCheck(cur.id)
           IN SetTask(t, IF chk = Ok THEN At(rec, "logs_process") ELSE Done(rec, chk))
        /\ UNCHANGED <<registry, fs_roots, netVars, procVars, next_id, locks>>
        /\ Account(t)

\* runtime.rs 201-203 with ProcessManager::get_container_logs: process.write();
\* a Child that has exited is taken out of running_processes and its output
\* returned; one that has not is left in place.
LogsProcess(t) ==
    \E cur \in Cur(t, "logs_process") :
        /\ CanWrite("process")
        /\ LET id == cur.id
               pid == running_processes[id]
           IN IF id \notin DOMAIN running_processes
              THEN /\ SetTask(t, Done(cur, Err("ProcessError", "Container not found")))
                   /\ UNCHANGED <<running_processes, os_procs>>
              ELSE IF os_procs[pid] = "exited"
              THEN /\ running_processes' = Del(running_processes, id)
                   /\ os_procs' = Del(os_procs, pid)
                   /\ SetTask(t, Done(cur, Ok))
              ELSE /\ SetTask(t, Done(cur, Err("ProcessError", "Container is still running")))
                   /\ UNCHANGED <<running_processes, os_procs>>
        /\ UNCHANGED <<registry, fs_roots, netVars, next_pid, next_id, locks>>
        /\ Account(t)

\* runtime.rs 207-216
ExecCheck(t) ==
    \E cur \in Cur(t, "exec_check")
                   \cup Calls(t, {"exec"}, CallIds, {FALSE}, {NoConfig}) :
        /\ CanRead("registry")
        /\ LET rec == [cur EXCEPT !.seen = StateOf(cur.id)]
               chk == RunningCheck(cur.id)
           IN SetTask(t, IF chk = Ok THEN At(rec, "exec_process") ELSE Done(rec, chk))
        /\ UNCHANGED <<registry, fs_roots, netVars, procVars, next_id, locks>>
        /\ Account(t)

\* runtime.rs 218-220 with ProcessManager::execute_in_container:
\* process.read(), run nsenter, which succeeds or exits non-zero.
ExecProcess(t) ==
    \E cur \in Cur(t, "exec_process") :
        /\ CanRead("process")
        /\ \E r \in {Ok, Err("ProcessError", "Command failed")} : SetTask(t, Done(cur, r))
        /\ UNCHANGED <<registry, fs_roots, netVars, procVars, next_id, locks>>
        /\ Account(t)

\* runtime.rs 247-267: get_container_stats, under registry.read() throughout;
\* the /proc files of the pid exist only while the process does.
StatsRead(t) ==
    \E cur \in Cur(t, "stats_read")
                   \cup Calls(t, {"stats"}, CallIds, {FALSE}, {NoConfig}) :
        /\ CanRead("registry")
        /\ LET rec == [cur EXCEPT !.seen = StateOf(cur.id)]
               chk == RunningCheck(cur.id)
           IN SetTask(t, Done(rec,
                  IF chk # Ok THEN chk
                  ELSE IF registry[cur.id].pid \in DOMAIN os_procs THEN Ok
                  ELSE Err("IoError", "read_to_string")))
        /\ UNCHANGED <<registry, fs_roots, netVars, procVars, next_id, locks>>
        /\ Account(t)

\* -------------------------------------------------------------------- cleanup
\* cleanup_all that stops nothing.
cleanup_all_Skipped ==
    {[running |-> running_processes, procs |-> os_procs, res |-> Ok]}

\* ProcessManager::cleanup_all: stop_container(id, true) for every key of
\* running_processes; the outcomes [running, procs, res].  Either every Child
\* is killed, or the kill of some f fails after the Children in `done` were
\* killed: that ends the loop, and f's Child is dropped.
cleanup_all ==
    LET keys == DOMAIN running_processes
        Killed(ks) == [p \in DOMAIN os_procs \ {running_processes[k] : k \in ks}
                         |-> os_procs[p]]
    IN {[running |-> EmptyMap, procs |-> Killed(keys), res |-> Ok]}
       \cup UNION {{[running |-> [k \in keys \ (done \cup {f}) |-> running_processes[k]],
                     procs |-> DropChild(Killed(done), running_processes[f]),
                     res |-> Err("ProcessError", "Failed to kill process")]
                      : done \in SUBSET (keys \ {f})} : f \in keys}

\* runtime.rs 301-304: process.write(), cleanup_all, drop.
CleanupProcs(t) ==
    \E cur \in Cur(t, "cleanup_procs")
                   \cup Calls(t, {"cleanup"}, {None}, {FALSE}, {NoConfig}) :
        /\ CanWrite("process")
        /\ \E r \in cleanup_all :
              /\ running_processes' = r.running
              /\ os_procs' = r.procs
              /\ SetTask(t, IF r.res = Ok THEN At(cur, "cleanup_list") ELSE Done(cur, r.res))
        /\ UNCHANGED <<registry, fs_roots, netVars, next_pid, next_id, locks>>
        /\ Account(t)

\* runtime.rs 306 with list_containers: registry.read(), clone every record.
CleanupList(t) ==
    \E cur \in Cur(t, "cleanup_list") :
        /\ CanRead("registry")
        /\ SetTask(t, [cur EXCEPT !.pc = "cleanup_loop", !.todo = DOMAIN registry,
                                      !.snapshot = [i \in DOMAIN registry |-> registry[i]]])
        /\ UNCHANGED <<registry, fs_roots, netVars, procVars, next_id, locks>>
        /\ Account(t)

\* runtime.rs 308-314: one iteration over the cloned records (in the order of
\* the HashMap's values): remove_container(id, true) for a clone that is
\* running, FilesystemManager::cleanup_container for any other.
CleanupLoop(t) ==
    \E cur \in Cur(t, "cleanup_loop") :
        /\ cur.todo # {}
        /\ \E id \in cur.todo :
              LET rec == [cur EXCEPT !.todo = @ \ {id}, !.id = id]
              IN IF is_running(cur.snapshot[id])
                 THEN /\ SetTask(t, At(rec, "remove_check"))
                      /\ fs_roots' = fs_roots
                 ELSE \E f \in cleanup_container(fs_roots, id) :
                         /\ fs_roots' = f.roots
                         /\ SetTask(t, IF f.res = Ok THEN rec ELSE Done(rec, f.res))
        /\ UNCHANGED <<registry, netVars, procVars, next_id, locks>>
        /\ Account(t)

\* runtime.rs 316-320: network.read(), cleanup_bridge (which swallows its
\* failures), Ok.
CleanupBridge(t) ==
    \E cur \in Cur(t, "cleanup_loop") :
        /\ cur.todo = {}
        /\ CanRead("network")
        /\ SetTask(t, Done(cur, Ok))
        /\ UNCHANGED <<registry, fs_roots, netVars, procVars, next_id, locks>>
        /\ Account(t)

\* ---------------------------------------------------------------- environment
\* A running leader exits on its own.  While a Child handle for it exists it
\* stays as an exited, unreaped process; otherwise it is gone.
LeaderExits(pid) ==
    /\ ~Returning
    /\ pid \in DOMAIN os_procs
    /\ os_procs[pid] = "running"
    /\ os_procs' = IF \E id \in DOMAIN running_processes : running_processes[id] = pid
                   THEN [os_procs EXCEPT ![pid] = "exited"]
                   ELSE Del(os_procs, pid)
    /\ UNCHANGED <<registry, fs_roots, netVars, running_processes, next_pid, next_id, calls,
                   locks, task, snap, probe>>

\* ----------------------------------------------------------------------- Next
\* Every step of an operation; an operation's first step is also the call.
Next ==
    \/ \E t \in Tasks : Return(t)
    \/ \E t \in Tasks : CreateBegin(t)
    \/ \E t \in Tasks : CreateNet(t)
    \/ \E t \in Tasks : CreateReg(t)
    \/ \E t \in Tasks : StartAcquire(t)
    \/ \E t \in Tasks : StartProcess(t)
    \/ \E t \in Tasks : StopAcquire(t)
    \/ \E t \in Tasks : StopProcess(t)
    \/ \E t \in Tasks : StopWait(t)
    \/ \E t \in Tasks : RestartSleep(t)
    \/ \E t \in Tasks : PauseAcquire(t)
    \/ \E t \in Tasks : PauseProcess(t)
    \/ \E t \in Tasks : ResumeAcquire(t)
    \/ \E t \in Tasks : ResumeProcess(t)
    \/ \E t \in Tasks : RemoveCheck(t)
    \/ \E t \in Tasks : RemoveNet(t)
    \/ \E t \in Tasks : RemoveReg(t)
    \/ \E t \in Tasks : LogsCheck(t)
    \/ \E t \in Tasks : LogsProcess(t)
    \/ \E t \in Tasks : ExecCheck(t)
    \/ \E t \in Tasks : ExecProcess(t)
    \/ \E t \in Tasks : StatsRead(t)
    \/ \E t \in Tasks : CleanupProcs(t)
    \/ \E t \in Tasks : CleanupList(t)
    \/ \E t \in Tasks : CleanupLoop(t)
    \/ \E t \in Tasks : CleanupBridge(t)
    \/ \E pid \in 1..MaxSpawns : LeaderExits(pid)

Spec == Init /\ [][Next]_vars

\* -------------------------------------------------------------- scheduling
\* A step of the call task t is running.
StepOf(t) == task[t].pc # "idle" /\ Next /\ task'[t] # task[t]

\* The executor keeps polling a task that can go on: a call that stays able
\* to take its next step takes it (a wait for a lock ends once the lock is
\* free, a wait for the leader ends by its exit or by the timeout).
FairSpec == Spec /\ \A t \in Tasks : WF_vars(StepOf(t))

\* ---------------------------------------------------------------- the locks
\* The lock the next step of a call asks for (read or write), "none" if it
\* asks for none: the .read().await / .write().await the step begins with.
Requests(rec) ==
    CASE rec.pc \in {"create_reg", "start_acquire", "stop_acquire", "pause_acquire",
                     "resume_acquire", "remove_check", "remove_reg", "logs_check",
                     "exec_check", "stats_read", "cleanup_list"} -> "registry"
      [] rec.pc \in {"create_net", "remove_net"} -> "network"
      [] rec.pc = "cleanup_loop" /\ rec.todo = {} -> "network"
      [] rec.pc \in {"start_process", "stop_process", "pause_process", "resume_process",
                     "logs_process", "exec_process", "cleanup_procs"} -> "process"
      [] OTHER -> "none"

\* The locks whose guard task t holds.
Held(t) == {l \in DOMAIN locks : locks[l].w = t \/ t \in locks[l].r}

\* ------------------------------------------------------------ cancellation
\* The caller drops the future of the call task t is running while it is
\* suspended at an .await (a lock acquisition, the wait for the leader, the
\* sleep of restart): the guards it holds are dropped, and so is the Child
\* that a graceful stop took out of running_processes.  Nothing else is
\* undone.
Drop(t) ==
    /\ ~Returning
    /\ task[t].pc \notin {"idle", "ret"}
    /\ Requests(task[t]) # "none" \/ task[t].pc \in {"stop_wait", "restart_sleep"}
    /\ task' = [task EXCEPT ![t] = Idle]
    /\ locks' = [l \in DOMAIN locks |->
                   [w |-> IF locks[l].w = t THEN None ELSE locks[l].w,
                    r |-> locks[l].r \ {t}]]
    /\ os_procs' = IF task[t].pc = "stop_wait"
                   THEN DropChild(os_procs, task[t].child)
                   ELSE os_procs
    /\ snap' = <<>>
    /\ UNCHANGED <<registry, fs_roots, netVars, running_processes, next_pid, next_id,
                   calls, probe>>

NextDrop ==
    \/ Next
    \/ \E t \in Tasks : Drop(t)

SpecDrop == Init /\ [][NextDrop]_vars

\* ------------------------------------------------- NetworkManager by itself
\* NetworkManager::new / with_config: any of the three network configs, no
\* container set up yet.
InitNet ==
    /\ registry = EmptyMap
    /\ fs_roots = {}
    /\ use_slirp4netns \in BOOLEAN
    /\ network_config \in {"IPv4", "IPv6", "DualStack"}
    /\ allocated_ips = EmptyMap
    /\ port_mappings = EmptyMap
    /\ container_ports = EmptyMap
    /\ running_processes = EmptyMap
    /\ os_procs = EmptyMap
    /\ next_id = 1
    /\ next_pid = 1
    /\ locks = [l \in {"registry", "network", "process"} |-> FreeLock]
    /\ task = [t \in Tasks |-> Idle]
    /\ calls = 0
    /\ snap = <<>>
    /\ probe = <<>>

\* The configurations that pass validation in create_container and so reach
\* the network setup.
ValidConfigs ==
    {cfg \in Configs : validate_container_security(cfg) = Ok /\ validate(cfg) = Ok}

\* setup_container_network for a container that has none, as create_container
\* calls it under the network write lock; its error is returned to the caller
\* and everything done before it stays.
NetSetup(id, cfg) ==
    /\ id \notin DOMAIN container_ports
    /\ LET r == setup_container_network(id, cfg)
       IN /\ allocated_ips' = r.ips
          /\ port_mappings' = r.pm
          /\ container_ports' = r.cp
    /\ UNCHANGED <<registry, fs_roots, use_slirp4netns, network_config, procVars,
                   next_id, locks, task, calls, snap, probe>>

\* cleanup_container_network, as remove_container calls it under the network
\* write lock.
NetCleanup(id) ==
    /\ id \in DOMAIN container_ports
    /\ LET n == cleanup_container_network(id)
       IN /\ allocated_ips' = n.ips
          /\ port_mappings' = n.pm
          /\ container_ports' = n.cp
    /\ UNCHANGED <<registry, fs_roots, use_slirp4netns, network_config, procVars,
                   next_id, locks, task, calls, snap, probe>>

NextNet ==
    \/ \E id \in Ids \cup {UnknownId} : \E cfg \in ValidConfigs : NetSetup(id, cfg)
    \/ \E id \in Ids \cup {UnknownId} : NetCleanup(id)

SpecNet == InitNet /\ [][NextNet]_vars

\* --------------------------------------- create_container's security checks
\* The limits of SecurityManager's checks.
MaxNamespaceId == 65535
MaxMemoryMb == 2048
MaxProcesses == 512
FirstUnprivilegedPort == 1024

\* SecurityManager::new: restricted_paths.
restricted_paths == <<"/etc/passwd", "/etc/shadow", "/etc/group", "/proc", "/sys">>

\* str::starts_with
StartsWith(p, r) == Len(p) >= Len(r) /\ SubSeq(p, 1, Len(r)) = r

\* A VolumeMount, with what the filesystem says about its host path.
Volume(host_path, exists, readonly, writable) ==
    [host_path |-> host_path, exists |-> exists, readonly |-> readonly,
     writable |-> writable]

\* A ContainerConfig with the fields the security checks read.  An Option is
\* the set of its values: {} for None, {v} for Some(v).  cpu_quota is in
\* hundredths.
SecConfig(name, ports, uid, gid, volumes, memory_mb, cpu_quota, max_processes) ==
    [name |-> name, ports |-> ports, uid |-> uid, gid |-> gid, volumes |-> volumes,
     resources |-> [memory_mb |-> memory_mb, cpu_quota |-> cpu_quota,
                    max_processes |-> max_processes]]

\* SecurityManager::validate_user_namespace_config
validate_user_namespace_config(uid, gid) ==
    IF \E u \in uid : u > MaxNamespaceId
    THEN Err("SecurityError", "UID too large for user namespace mapping")
    ELSE IF \E g \in gid : g > MaxNamespaceId
    THEN Err("SecurityError", "GID too large for user namespace mapping")
    ELSE Ok

\* SecurityManager::can_write_to_path: it answers by writing the file
\* .turbine_write_test under the path, and removes it again if the write
\* went through.
can_write_to_path(v) == v.writable

\* SecurityManager::validate_volumes, from volume i on, with the host paths
\* the write test has written under so far: the result, and those paths.
RECURSIVE validate_volumes(_, _, _)
validate_volumes(volumes, i, wrote) ==
    IF i > Len(volumes) THEN [res |-> Ok, wrote |-> wrote]
    ELSE LET v == volumes[i]
             tested == IF can_write_to_path(v) THEN wrote \cup {v.host_path} ELSE wrote
         IN IF \E k \in DOMAIN restricted_paths : StartsWith(v.host_path, restricted_paths[k])
            THEN [res |-> Err("SecurityError", "Access to path '" \o v.host_path \o "' is restricted"),
                  wrote |-> wrote]
            ELSE IF ~v.exists
            THEN [res |-> Err("SecurityError", "Host path '" \o v.host_path \o "' does not exist"),
                  wrote |-> wrote]
            ELSE IF v.readonly THEN validate_volumes(volumes, i + 1, wrote)
            ELSE IF ~can_write_to_path(v)
            THEN [res |-> Err("SecurityError", "No write access to path '" \o v.host_path \o "'"),
                  wrote |-> tested]
            ELSE validate_volumes(volumes, i + 1, tested)

\* SecurityManager::validate_resource_limits
validate_resource_limits(resources) ==
    IF \E m \in resources.memory_mb : m > MaxMemoryMb
    THEN Err("SecurityError", "Memory limit cannot exceed 2GB in rootless mode")
    ELSE IF \E c \in resources.cpu_quota : c > 100
    THEN Err("SecurityError", "CPU quota cannot exceed 1.0 in rootless mode")
    ELSE IF \E n \in resources.max_processes : n > MaxProcesses
    THEN Err("SecurityError", "Process limit cannot exceed 512 in rootless mode")
    ELSE Ok

\* SecurityManager::validate_container_security with use_user_namespaces, as
\* SecurityManager::new sets it: the four checks in order, the first error
\* returned, with the host paths the volume check wrote under.
validate_container_security_all(sc) ==
    LET user == validate_user_namespace_config(sc.uid, sc.gid)
        vols == validate_volumes(sc.volumes, 1, {})
        lims == validate_resource_limits(sc.resources)
    IN IF user # Ok THEN [res |-> user, wrote |-> {}]
       ELSE IF vols.res # Ok THEN vols
       ELSE IF lims # Ok THEN [res |-> lims, wrote |-> vols.wrote]
       ELSE [res |-> validate_container_security(Config(sc.name, sc.ports)),
             wrote |-> vols.wrote]

\* The configurations whose validation is explored: every combination of a
\* value at, above and (for the Options) without each limit, and of a volume
\* list.
SecConfigs ==
    {SecConfig("web", ports, uid, gid, volumes, mem, cpu, procs) :
        ports \in {<<>>, <<PortMapping(FirstUnprivilegedPort, 80)>>,
                   <<PortMapping(FirstUnprivilegedPort - 1, 80)>>},
        uid \in {{}, {MaxNamespaceId}, {MaxNamespaceId + 1}},
        gid \in {{}, {MaxNamespaceId}, {MaxNamespaceId + 1}},
        volumes \in {<<>>,
                     <<Volume("/data", TRUE, FALSE, TRUE)>>,
                     <<Volume("/data", TRUE, FALSE, FALSE)>>,
                     <<Volume("/missing", FALSE, TRUE, FALSE)>>,
                     <<Volume("/etc/passwd", TRUE, TRUE, FALSE)>>,
                     <<Volume("/etc/shadow", TRUE, TRUE, FALSE)>>,
                     <<Volume("/etc/group", TRUE, TRUE, FALSE)>>,
                     <<Volume("/proc/cpuinfo", TRUE, TRUE, FALSE)>>,
                     <<Volume("/data", TRUE, FALSE, TRUE),
                       Volume("/sys/fs", TRUE, TRUE, FALSE)>>},
        mem \in {{}, {MaxMemoryMb}, {MaxMemoryMb + 1}},
        cpu \in {{}, {100}, {101}},
        procs \in {{}, {MaxProcesses}, {MaxProcesses + 1}}}

\* A fresh TurbineRuntime and a configuration a caller is about to create.
InitSec ==
    /\ registry = EmptyMap
    /\ fs_roots = {}
    /\ use_slirp4netns \in BOOLEAN
    /\ network_config = "IPv4"
    /\ allocated_ips = EmptyMap
    /\ port_mappings = EmptyMap
    /\ container_ports = EmptyMap
    /\ running_processes = EmptyMap
    /\ os_procs = EmptyMap
    /\ next_id = 1
    /\ next_pid = 1
    /\ locks = [l \in {"registry", "network", "process"} |-> FreeLock]
    /\ task = [t \in Tasks |-> Idle]
    /\ calls = 0
    /\ snap = <<>>
    /\ probe \in {[cfg |-> sc, res |-> NoResult, wrote |-> {}] : sc \in SecConfigs}

\* create_container(probe.cfg) by a single caller, from the first check to
\* the return (runtime.rs 46-70).
CreateChecked ==
    /\ probe.res = NoResult
    /\ LET sc == probe.cfg
           cfg == Config(sc.name, sc.ports)
           sec == validate_container_security_all(sc)
           val == validate(cfg)
           r == setup_container_network(next_id, cfg)
       IN IF sec.res # Ok \/ val # Ok
          THEN /\ probe' = [probe EXCEPT !.res = IF sec.res # Ok THEN sec.res ELSE val,
                                         !.wrote = sec.wrote]
               /\ UNCHANGED <<registry, fs_roots, allocated_ips, port_mappings,
                              container_ports, next_id>>
          ELSE /\ next_id' = next_id + 1
               /\ \/ \* a filesystem step fails, before or after the root exists
                     /\ \E roots \in {fs_roots, fs_roots \cup {next_id}} : fs_roots' = roots
                     /\ probe' = [probe EXCEPT !.res = Err("IoError", "create_dir_all"),
                                               !.wrote = sec.wrote]
                     /\ UNCHANGED <<registry, allocated_ips, port_mappings, container_ports>>
                  \/ /\ fs_roots' = fs_roots \cup {next_id}
                     /\ allocated_ips' = r.ips
                     /\ port_mappings' = r.pm
                     /\ container_ports' = r.cp
                     /\ registry' = IF r.res = Ok
                                    THEN Put(registry, next_id, NewContainer(cfg))
                                    ELSE registry
                     /\ probe' = [probe EXCEPT !.res = r.res, !.wrote = sec.wrote]
    /\ UNCHANGED <<use_slirp4netns, network_config, procVars, locks, task, calls, snap>>

NextSec == CreateChecked

SpecSec == InitSec /\ [][NextSec]_vars

\* ------------------------------------------------------------ deploy_web_app
\* A PortMapping with its protocol.
TcpPortMapping(host_port, container_port) ==
    [host_port |-> host_port, container_port |-> container_port, protocol |-> "tcp"]

\* ContainerConfig::default and ResourceLimits::default, with the fields that
\* create_container's checks and set_web_defaults read or write (an Option is
\* the set of its values, cpu_quota is in hundredths).
DefaultConfig ==
    [name |-> "", image |-> "", ports |-> <<>>, volumes |-> <<>>,
     environment |-> EmptyMap,
     resources |-> [memory_mb |-> {512}, cpu_quota |-> {100}, max_processes |-> {256}],
     user |-> {}, uid |-> {}, gid |-> {}, restart_policy |-> "Never"]

\* set_web_defaults that sets both limits whether or not they were set.
set_web_defaults_OverwritesLimits(cfg, port) ==
    [cfg EXCEPT !.ports = Append(@, TcpPortMapping(port, 8080)),
                !.environment = Put(Put(@, "PORT", "8080"), "NODE_ENV", "production"),
                !.restart_policy = "Always",
                !.resources.memory_mb = {256},
                !.resources.cpu_quota = {50}]

\* ContainerConfig::set_web_defaults
set_web_defaults(cfg, port) ==
    [cfg EXCEPT !.ports = Append(@, TcpPortMapping(port, 8080)),
                !.environment = Put(Put(@, "PORT", "8080"), "NODE_ENV", "production"),
                !.restart_policy = "Always",
                !.resources.memory_mb = IF @ = {} THEN {256} ELSE @,
                !.resources.cpu_quota = IF @ = {} THEN {50} ELSE @]

\* str::contains
Contains(str, sub) ==
    \E i \in 1..(Len(str) - Len(sub) + 1) : SubSeq(str, i, i + Len(sub) - 1) = sub

\* sanitize_environment whose last insert does not replace a HOME the caller
\* supplied.
sanitize_environment_KeepsCallerHome(env) ==
    LET dangerous == {var \in {"LD_PRELOAD", "LD_LIBRARY_PATH"} \cap DOMAIN env :
                         \/ Contains(env[var], "..")
                         \/ Contains(env[var], "/etc")
                         \/ Contains(env[var], "/usr")}
        kept == [var \in DOMAIN env \ dangerous |-> env[var]]
        marked == Put(Put(kept, "TURBINE_CONTAINER", "true"), "TURBINE_ROOTLESS", "true")
    IN IF "HOME" \in DOMAIN marked THEN marked ELSE Put(marked, "HOME", "/app")

\* SecurityManager::sanitize_environment
sanitize_environment(env) ==
    LET dangerous == {var \in {"LD_PRELOAD", "LD_LIBRARY_PATH"} \cap DOMAIN env :
                         \/ Contains(env[var], "..")
                         \/ Contains(env[var], "/etc")
                         \/ Contains(env[var], "/usr")}
        kept == [var \in DOMAIN env \ dangerous |-> env[var]]
    IN Put(Put(Put(kept, "TURBINE_CONTAINER", "true"), "TURBINE_ROOTLESS", "true"),
           "HOME", "/app")

\* SecurityManager::validate_image_security
validate_image_security(image) ==
    IF Contains(image, "..")
    THEN Err("SecurityError", "Image path contains directory traversal")
    ELSE IF ~StartsWith(image, "/") /\ ~StartsWith(image, "./")
    THEN Err("SecurityError", "Image path must be absolute or relative to current directory")
    ELSE Ok

\* ContainerConfig::validate on every field it reads; its anyhow error becomes
\* RuntimeError through From<anyhow::Error> for TurbineError.
validate_all(cfg) ==
    IF cfg.name = ""
    THEN Err("RuntimeError", "Container name cannot be empty")
    ELSE IF cfg.image = ""
    THEN Err("RuntimeError", "Container image cannot be empty")
    ELSE IF \E i \in DOMAIN cfg.ports :
                cfg.ports[i].host_port = 0 \/ cfg.ports[i].container_port = 0
    THEN Err("RuntimeError", "Invalid port mapping")
    ELSE IF \E i \in DOMAIN cfg.volumes : ~cfg.volumes[i].exists
    THEN Err("RuntimeError", "Host path does not exist")
    ELSE IF 0 \in cfg.uid /\ \E u \in cfg.user : u # "root"
    THEN Err("RuntimeError", "UID 0 should only be used with user 'root'")
    ELSE Ok

\* The configurations set_web_defaults is applied to: with and without each
\* limit, an earlier port, an earlier PORT variable.
WebBases ==
    {[DefaultConfig EXCEPT !.name = "web", !.image = "./img", !.ports = ports,
                           !.environment = env, !.restart_policy = policy,
                           !.resources.memory_mb = mem, !.resources.cpu_quota = cpu] :
        ports \in {<<>>, <<TcpPortMapping(9090, 9090)>>},
        env \in {EmptyMap, Put(EmptyMap, "PORT", "3000")},
        policy \in {"Never", "OnFailure"},
        mem \in {{}, {512}},
        cpu \in {{}, {100}}}

\* The host ports callers pass.
WebPorts == {0, 80, 8080}

\* A fresh TurbineRuntime, and either a configuration set_web_defaults is
\* about to be called on or a deploy_web_app(name, image, port) about to run.
InitWeb ==
    /\ registry = EmptyMap
    /\ fs_roots = {}
    /\ use_slirp4netns \in BOOLEAN
    /\ network_config = "IPv4"
    /\ allocated_ips = EmptyMap
    /\ port_mappings = EmptyMap
    /\ container_ports = EmptyMap
    /\ running_processes = EmptyMap
    /\ os_procs = EmptyMap
    /\ next_id = 1
    /\ next_pid = 1
    /\ locks = [l \in {"registry", "network", "process"} |-> FreeLock]
    /\ task = [t \in Tasks |-> Idle]
    /\ calls = 0
    /\ snap = <<>>
    /\ probe \in
          {[op |-> "set_web_defaults", base |-> base, port |-> port, cfg |-> base,
            res |-> NoResult] : base \in WebBases, port \in WebPorts}
          \cup
          {[op |-> "deploy_web_app",
            base |-> [DefaultConfig EXCEPT !.name = name, !.image = image],
            port |-> port,
            cfg |-> [DefaultConfig EXCEPT !.name = name, !.image = image],
            res |-> NoResult] :
              name \in {"web", ""}, image \in {"./img", "/srv/img", "img", "./../img", ""},
              port \in WebPorts}

\* cfg.set_web_defaults(port) on its own.
SetWebDefaults ==
    /\ probe.op = "set_web_defaults" /\ probe.res = NoResult
    /\ probe' = [probe EXCEPT !.cfg = set_web_defaults(probe.base, probe.port), !.res = Ok]
    /\ UNCHANGED <<registry, fs_roots, netVars, procVars, next_id, locks, task, calls, snap>>

\* deploy_web_app(name, image, port) by a single caller, from
\* create_web_container to the return of start_container (runtime.rs 229-245,
\* 46-70, 72-89).
DeployWebApp ==
    /\ probe.op = "deploy_web_app" /\ probe.res = NoResult
    /\ LET id == next_id
           web == set_web_defaults(probe.base, probe.port)
           sec == validate_container_security_all(web).res
           cfg == [web EXCEPT !.environment = sanitize_environment(@)]
           img == validate_image_security(cfg.image)
           val == validate_all(cfg)
           r == setup_container_network(id, cfg)
           Returns(res) == probe' = [probe EXCEPT !.cfg = cfg, !.res = res]
       IN IF sec # Ok \/ img # Ok \/ val # Ok
          THEN /\ Returns(IF sec # Ok THEN sec ELSE IF img # Ok THEN img ELSE val)
               /\ UNCHANGED <<registry, fs_roots, allocated_ips, port_mappings,
                              container_ports, procVars, next_id>>
          ELSE /\ next_id' = id + 1
               /\ \/ \* a filesystem step fails, before or after the root exists
                     /\ \E roots \in {fs_roots, fs_roots \cup {id}} : fs_roots' = roots
                     /\ Returns(Err("IoError", "create_dir_all"))
                     /\ UNCHANGED <<registry, allocated_ips, port_mappings,
                                    container_ports, procVars>>
                  \/ /\ fs_roots' = fs_roots \cup {id}
                     /\ allocated_ips' = r.ips
                     /\ port_mappings' = r.pm
                     /\ container_ports' = r.cp
                     /\ \/ \* the network setup fails
                           /\ \/ r.res # Ok /\ Returns(r.res)
                              \/ /\ r.res = Ok /\ ~use_slirp4netns
                                 /\ Returns(Err("NetworkError",
                                        "Failed to create veth pair in namespace"))
                           /\ UNCHANGED <<registry, procVars>>
                        \/ \* registered; create_secure_environment fails
                           /\ r.res = Ok
                           /\ \E e \in create_secure_environment_results \ {Ok} : Returns(e)
                           /\ registry' = Put(registry, id, NewContainer(cfg))
                           /\ UNCHANGED procVars
                        \/ \* registered; cmd.spawn() fails
                           /\ r.res = Ok
                           /\ Returns(Err("ProcessError", "Failed to spawn process"))
                           /\ registry' = Put(registry, id, NewContainer(cfg))
                           /\ UNCHANGED procVars
                        \/ \* registered and started
                           /\ r.res = Ok
                           /\ Ok \in create_secure_environment_results
                           /\ Returns(Ok)
                           /\ registry' = Put(registry, id,
                                 set_state(set_pid(NewContainer(cfg), next_pid), "Running"))
                           /\ running_processes' = Put(running_processes, id, next_pid)
                           /\ os_procs' = Put(os_procs, next_pid, "running")
                           /\ next_pid' = next_pid + 1
    /\ UNCHANGED <<use_slirp4netns, network_config, locks, task, calls, snap>>

NextWeb ==
    \/ SetWebDefaults
    \/ DeployWebApp

SpecWeb == InitWeb /\ [][NextWeb]_vars

\* ------------------------------------------------------------ build_command
\* The pre_exec hooks ProcessManager::build_command registers on the command,
\* in the order of registration: one per credential the config gives.
build_command(cfg) ==
    (IF cfg.uid # {} THEN <<"setuid">> ELSE <<>>)
    \o (IF cfg.gid # {} THEN <<"setgid">> ELSE <<>>)
    \o (IF cfg.groups # {} THEN <<"setgroups">> ELSE <<>>)

\* The credentials a config gives (an Option is the set of its values).
CredConfigs ==
    {[uid |-> uid, gid |-> gid, groups |-> groups] :
        uid \in {{}, {0}, {1000}, {65534}},
        gid \in {{}, {100}, {1000}},
        groups \in {{}, {<<>>}, {<<10, 20>>}}}

\* A container about to be spawned: no command built yet.
InitCmd ==
    /\ registry = EmptyMap
    /\ fs_roots = {}
    /\ use_slirp4netns = FALSE
    /\ network_config = "IPv4"
    /\ allocated_ips = EmptyMap
    /\ port_mappings = EmptyMap
    /\ container_ports = EmptyMap
    /\ running_processes = EmptyMap
    /\ os_procs = EmptyMap
    /\ next_id = 1
    /\ next_pid = 1
    /\ locks = [l \in {"registry", "network", "process"} |-> FreeLock]
    /\ task = [t \in Tasks |-> Idle]
    /\ calls = 0
    /\ snap = <<>>
    /\ probe \in {[op |-> "build_command", cfg |-> cfg, built |-> FALSE, hooks |-> <<>>,
                   ran |-> <<>>, res |-> NoResult] : cfg \in CredConfigs}

\* build_command(container), called by start_container before the spawn.
BuildCommand ==
    /\ ~probe.built
    /\ probe' = [probe EXCEPT !.built = TRUE, !.hooks = build_command(probe.cfg)]
    /\ UNCHANGED <<registry, fs_roots, netVars, procVars, next_id, locks, task, calls, snap>>

\* The forked child runs the next pre_exec hook (std runs the closures in the
\* order they were registered); a hook whose call fails ends the spawn with
\* its error, and after the last hook the child execs.
PreExec ==
    /\ probe.built /\ probe.res = NoResult
    /\ IF probe.hooks = <<>>
       THEN probe' = [probe EXCEPT !.res = Ok]
       ELSE \/ probe' = [probe EXCEPT !.ran = Append(@, Head(probe.hooks)),
                                      !.hooks = Tail(@)]
            \/ probe' = [probe EXCEPT !.ran = Append(@, Head(probe.hooks)),
                                      !.res = Err("ProcessError", "Failed to spawn process")]
    /\ UNCHANGED <<registry, fs_roots, netVars, procVars, next_id, locks, task, calls, snap>>

NextCmd ==
    \/ BuildCommand
    \/ PreExec

SpecCmd == InitCmd /\ [][NextCmd]_vars

\* --------------------------------------------------- setup_uid_gid_mappings
\* A write to a file of /proc/<pid>.
ProcWrite(file, content) == [file |-> file, content |-> content]

\* The map line format!("{} {} 1", container_id, host_id).
MapLine(container_id, host_id) == ToString(container_id) \o " " \o ToString(host_id) \o " 1"

\* setup_uid_gid_mappings that goes on to gid_map when the setgroups write
\* failed.
setup_uid_gid_mappings_IgnoresDeny(host_uid, host_gid, container_uid, container_gid) ==
    {[writes |-> <<ProcWrite("uid_map", MapLine(container_uid, host_uid)),
                   ProcWrite("gid_map", MapLine(container_gid, host_gid))>>,
      res |-> Ok]}

\* SecurityManager::setup_uid_gid_mappings: the outcomes [writes, res], the
\* writes that went through in order and the result.  Each of the three
\* writes can fail, and the first failure is returned.
setup_uid_gid_mappings(host_uid, host_gid, container_uid, container_gid) ==
    LET uid_map == ProcWrite("uid_map", MapLine(container_uid, host_uid))
        deny == ProcWrite("setgroups", "deny")
        gid_map == ProcWrite("gid_map", MapLine(container_gid, host_gid))
    IN {[writes |-> <<>>, res |-> Err("SecurityError", "Failed to write uid_map")],
        [writes |-> <<uid_map>>, res |-> Err("SecurityError", "Failed to deny setgroups")],
        [writes |-> <<uid_map, deny>>, res |-> Err("SecurityError", "Failed to write gid_map")],
        [writes |-> <<uid_map, deny, gid_map>>, res |-> Ok]}

\* The ids of the caller on the host and the ids wanted inside the container
\* (config.uid / config.gid, 0 when not given).
HostIds == {1000, 1001}
ContainerIds == {0, 1000, 65535}

\* setup_user_namespace has forked the child and is about to map its ids.
InitMap ==
    /\ registry = EmptyMap
    /\ fs_roots = {}
    /\ use_slirp4netns = FALSE
    /\ network_config = "IPv4"
    /\ allocated_ips = EmptyMap
    /\ port_mappings = EmptyMap
    /\ container_ports = EmptyMap
    /\ running_processes = EmptyMap
    /\ os_procs = EmptyMap
    /\ next_id = 1
    /\ next_pid = 1
    /\ locks = [l \in {"registry", "network", "process"} |-> FreeLock]
    /\ task = [t \in Tasks |-> Idle]
    /\ calls = 0
    /\ snap = <<>>
    /\ probe \in {[op |-> "setup_uid_gid_mappings", host_uid |-> hu, host_gid |-> hg,
                   container_uid |-> cu, container_gid |-> cg,
                   writes |-> <<>>, res |-> NoResult] :
                     hu \in HostIds, hg \in HostIds, cu \in ContainerIds, cg \in ContainerIds}

\* setup_uid_gid_mappings(child, host_uid, host_gid, container_uid,
\* container_gid).
SetupUidGidMappings ==
    /\ probe.res = NoResult
    /\ \E r \in setup_uid_gid_mappings(probe.host_uid, probe.host_gid,
                                       probe.container_uid, probe.container_gid) :
          probe' = [probe EXCEPT !.writes = r.writes, !.res = r.res]
    /\ UNCHANGED <<registry, fs_roots, netVars, procVars, next_id, locks, task, calls, snap>>

NextMap == SetupUidGidMappings

SpecMap == InitMap /\ [][NextMap]_vars

\* ----------------------------------------------- the address scan near its end
\* The family a single-family network config allocates, and the value of the
\* counter at which its scan gives up (network.rs 346, 377).
FamilyOf(cfg) == IF cfg = "IPv4" THEN "v4" ELSE "v6"
StopOf(family) == IF family = "v4" THEN 255 ELSE 65535

\* The host part of the c-th address in ascending order when those in gone
\* are free.
HostOf(c, gone) ==
    CHOOSE h \in (c + 1)..(c + 1 + Cardinality(gone)) :
        h \notin gone /\ h - Cardinality({g \in gone : g < h}) = c + 1

\* allocated_ips of a single-family manager in which the host parts 2..top
\* except those in gone are held, one by each of as many containers (which
\* container holds which address is immaterial to the scan).
Filled(family, top, gone) ==
    [c \in 1..(top - 1 - Cardinality(gone)) |-> <<IpAddr(family, HostOf(c, gone))>>]

\* How far below the top of the subnet the modelled managers have holes, and
\* how far below the stop value the modelled scans are picked up: the whole
\* scan for the 8-bit counter, its last iterations for the 16-bit one.
Holes(family) == IF family = "v4" THEN {0, 1, 2, 4} ELSE {0}
ScanStarts(family) ==
    IF family = "v4" THEN {2} \cup {StopOf(family) - d : d \in 1..6}
    ELSE {StopOf(family) - d : d \in 1..2}

\* A manager with nearly all or all host parts of its subnet allocated, and
\* allocate_ips for one more container at some iteration of its scan: the
\* counter s has passed only host parts that are taken.
InitScan ==
    /\ registry = EmptyMap
    /\ fs_roots = {}
    /\ use_slirp4netns = FALSE
    /\ network_config \in {"IPv4", "IPv6"}
    /\ \E gone \in SUBSET Holes(FamilyOf(network_config)) :
          LET top == StopOf(FamilyOf(network_config)) - 1
          IN allocated_ips = Filled(FamilyOf(network_config), top,
                                    {top - g : g \in gone})
    /\ port_mappings = EmptyMap
    /\ container_ports = EmptyMap
    /\ running_processes = EmptyMap
    /\ os_procs = EmptyMap
    /\ next_id = 1
    /\ next_pid = 1
    /\ locks = [l \in {"registry", "network", "process"} |-> FreeLock]
    /\ task = [t \in Tasks |-> Idle]
    /\ calls = 0
    /\ snap = <<>>
    /\ \E s \in ScanStarts(FamilyOf(network_config)) :
          /\ {c \in 1..(s - 2) : c \notin DOMAIN allocated_ips
                                   \/ allocated_ips[c][1].host # c + 1} = {}
          /\ probe = [op |-> "allocate_ips", id |-> StopOf(FamilyOf(network_config)),
                      s |-> s, res |-> NoResult]

\* One iteration of the scan of allocate_ipv4 / allocate_ipv6 inside
\* allocate_ips(id): a free candidate is inserted for id and returned, an
\* exhausted scan returns its NetworkError before anything is inserted.
ScanIteration ==
    /\ probe.res = NoResult
    /\ LET family == FamilyOf(network_config)
           it == ScanStep(allocated_ips, family, probe.s, StopOf(family))
       IN /\ probe' = [probe EXCEPT
                         !.s = it.next,
                         !.res = CASE it.at = "found" -> Ok
                                   [] it.at = "exhausted" ->
                                        Err("NetworkError",
                                            IF family = "v4"
                                            THEN "No available IPv4 addresses in subnet"
                                            ELSE "No available IPv6 addresses in subnet")
                                   [] OTHER -> NoResult]
          /\ allocated_ips' = IF it.at = "found"
                              THEN Put(allocated_ips, probe.id, <<IpAddr(family, probe.s)>>)
                              ELSE allocated_ips
    /\ UNCHANGED <<registry, fs_roots, use_slirp4netns, network_config, port_mappings,
                   container_ports, procVars, next_id, locks, task, calls, snap>>

NextScan == ScanIteration

SpecScan == InitScan /\ [][NextScan]_vars

\* ------------------------------------------------- sanitize_environment alone
\* The values a caller may have given each variable: harmless ones and ones
\* containing "..", "/etc" or "/usr".
EnvValues(var) ==
    CASE var \in {"LD_PRELOAD", "LD_LIBRARY_PATH"} ->
             {"/opt/lib/a.so", "usr.etc", "../a.so", "/opt/etc", "/opt/../lib", "/etc/ld.so",
              "/usr/lib", "usr/etc.."}
      [] var = "HOME" -> {"/root"}
      [] var = "TURBINE_CONTAINER" -> {"false"}
      [] var = "TURBINE_ROOTLESS" -> {"true"}
      [] OTHER -> {"/usr/bin:/etc/../bin"}

EnvVars == {"LD_PRELOAD", "LD_LIBRARY_PATH", "HOME", "TURBINE_CONTAINER", "TURBINE_ROOTLESS", "PATH"}

\* A caller's environment map, not yet sanitized.
InitEnv ==
    /\ registry = EmptyMap
    /\ fs_roots = {}
    /\ use_slirp4netns = FALSE
    /\ network_config = "IPv4"
    /\ allocated_ips = EmptyMap
    /\ port_mappings = EmptyMap
    /\ container_ports = EmptyMap
    /\ running_processes = EmptyMap
    /\ os_procs = EmptyMap
    /\ next_id = 1
    /\ next_pid = 1
    /\ locks = [l \in {"registry", "network", "process"} |-> FreeLock]
    /\ task = [t \in Tasks |-> Idle]
    /\ calls = 0
    /\ snap = <<>>
    /\ \E preload \in {{}} \cup {{v} : v \in EnvValues("LD_PRELOAD")} :
       \E library_path \in {{}} \cup {{v} : v \in EnvValues("LD_LIBRARY_PATH")} :
       \E others \in SUBSET (EnvVars \ {"LD_PRELOAD", "LD_LIBRARY_PATH"}) :
          LET given == others \cup (IF preload = {} THEN {} ELSE {"LD_PRELOAD"})
                              \cup (IF library_path = {} THEN {} ELSE {"LD_LIBRARY_PATH"})
              env == [var \in given |->
                         IF var = "LD_PRELOAD" THEN CHOOSE v \in preload : TRUE
                         ELSE IF var = "LD_LIBRARY_PATH" THEN CHOOSE v \in library_path : TRUE
                         ELSE CHOOSE v \in EnvValues(var) : TRUE]
          IN probe = [op |-> "sanitize_environment", given |-> env, env |-> env,
                      first |-> env, n |-> 0]

\* sanitize_environment(&mut env), for the first and for the second time.
SanitizeEnvironment ==
    /\ probe.n < 2
    /\ probe' = [probe EXCEPT !.env = sanitize_environment(@),
                              !.first = IF probe.n = 0 THEN sanitize_environment(probe.env) ELSE @,
                              !.n = @ + 1]
    /\ UNCHANGED <<registry, fs_roots, netVars, procVars, next_id, locks, task, calls, snap>>

NextEnv == SanitizeEnvironment

SpecEnv == InitEnv /\ [][NextEnv]_vars

\* ===================================================================== claims
\* C1: in every state, every registered container has a leader pid if and
\* only if its state is Running or Paused.
C1_PidIffRunningOrPaused ==
    \A id \in DOMAIN registry :
        (registry[id].pid # None) <=> registry[id].state \in {"Running", "Paused"}

\* A container that ran and was stopped: its pid is cleared again.
C1_Witness ==
    \E id \in DOMAIN registry :
        /\ registry[id].state = "Stopped"
        /\ registry[id].stopped_at
        /\ registry[id].pid = None

\* The state changes the specification lists (Error is entered from any state).
AllowedTransitions ==
    {<<"Created", "Running">>, <<"Running", "Paused">>, <<"Paused", "Running">>,
     <<"Running", "Stopped">>, <<"Stopped", "Running">>}

\* C2: a record enters the registry in state Created, and every later change
\* of its state is Created->Running, Running->Paused, Paused->Running,
\* Running->Stopped, Stopped->Running or a change to Error.
C2_OnlyListedTransitions ==
    [][\A id \in DOMAIN registry' :
          IF id \in DOMAIN registry
          THEN \/ registry'[id].state = registry[id].state
               \/ registry'[id].state = "Error"
               \/ <<registry[id].state, registry'[id].state>> \in AllowedTransitions
          ELSE registry'[id].state = "Created"]_vars

\* resume has just taken a Paused container back to Running.
C2_Witness ==
    \E t \in Tasks :
        /\ task[t].pc = "ret" /\ task[t].op = "resume" /\ task[t].res = Ok
        /\ task[t].seen = "Paused"
        /\ StateOf(task[t].id) = "Running"

\* Task t makes a call, and the call's first step is taken.
CallOf(t) == task[t].pc = "idle" /\ task'[t].pc # "idle"

\* C3: start(id) on a container that is Running or Paused returns
\* ContainerError at once, spawns no leader and leaves the registry and the
\* process map unchanged.
C3_StartRejectedUnlessCreatedOrStopped ==
    [][\A t \in Tasks :
          (CallOf(t) /\ task'[t].op = "start" /\ task'[t].seen \in {"Running", "Paused"})
          => /\ task'[t].pc = "ret"
             /\ task'[t].res.kind = "ContainerError"
             /\ UNCHANGED <<registry, running_processes, os_procs, next_pid>>]_vars

\* C4: stop(id, force) on a Paused container is accepted as on a Running one:
\* it is not refused for the container's state, and when it returns Ok the
\* container is Stopped with no leader pid and with stopped_at set.
C4_StopAcceptedOnPaused ==
    \A t \in Tasks :
        (task[t].pc = "ret" /\ task[t].op = "stop" /\ task[t].seen = "Paused")
        => /\ task[t].res.kind # "ContainerError"
           /\ task[t].res = Ok /\ task[t].id \in DOMAIN registry
              => /\ registry[task[t].id].state = "Stopped"
                 /\ registry[task[t].id].pid = None
                 /\ registry[task[t].id].stopped_at

\* The call of rec is one the state machine forbids: pause, restart, exec,
\* logs or stats found the container not Running, resume found it not Paused,
\* or the operation found no container of that id.
Forbidden(rec) ==
    \/ rec.op \in {"pause", "restart", "exec", "logs", "stats"} /\ rec.seen # "Running"
    \/ rec.op = "resume" /\ rec.seen # "Paused"
    \/ /\ rec.op \in {"start", "stop", "restart", "pause", "resume", "remove",
                      "logs", "exec", "stats"}
       /\ rec.seen = "absent"

\* C5: a forbidden call returns ContainerError at once and leaves the
\* registry, the network maps and the process map unchanged.
C5_ForbiddenCallsChangeNothing ==
    [][\A t \in Tasks :
          (CallOf(t) /\ Forbidden(task'[t]))
          => /\ task'[t].pc = "ret"
             /\ task'[t].res.kind = "ContainerError"
             /\ UNCHANGED <<registry, allocated_ips, port_mappings, container_ports,
                            running_processes>>]_vars

\* logs was refused on a container whose leader had been stopped.
C5_Witness ==
    \E t \in Tasks :
        /\ task[t].pc = "ret" /\ task[t].op = "logs" /\ task[t].seen = "Stopped"
        /\ task[t].res = Err("ContainerError", "Container is not running")

\* C6: remove(id, force=false) on a Running or Paused container returns
\* ContainerError at once and removes nothing: the record, the network
\* entries, the process handle and the root directory stay.
C6_RemoveRefusedUnlessCreatedOrStopped ==
    [][\A t \in Tasks :
          (CallOf(t) /\ task'[t].op = "remove" /\ ~task'[t].force
                     /\ task'[t].seen \in {"Running", "Paused"})
          => /\ task'[t].pc = "ret"
             /\ task'[t].res.kind = "ContainerError"
             /\ UNCHANGED <<registry, allocated_ips, port_mappings, container_ports,
                            running_processes, fs_roots>>]_vars

\* No entry of any map is keyed by (or, in port_mappings, owned by) id, and
\* the root directory of id does not exist.
Gone(id) ==
    /\ id \notin DOMAIN registry
    /\ id \notin DOMAIN allocated_ips
    /\ id \notin DOMAIN container_ports
    /\ \A p \in DOMAIN port_mappings : port_mappings[p] # id
    /\ id \notin DOMAIN running_processes
    /\ id \notin fs_roots

\* C7: when remove(id, force) has returned Ok (no other operation having run
\* beside it), whatever state it found the container in, nothing of id is left.
C7_RemoveLeavesNothing ==
    \A t \in Tasks :
        (task[t].pc = "ret" /\ task[t].op = "remove" /\ task[t].res = Ok /\ task[t].solo)
        => Gone(task[t].id)

\* C8: when cleanup has returned Ok (no other operation having run beside
\* it), nothing is left of any container that was registered, whatever state
\* it was in.
C8_CleanupLeavesNothing ==
    \A t \in Tasks :
        (task[t].pc = "ret" /\ task[t].op = "cleanup" /\ task[t].res = Ok /\ task[t].solo)
        => \A id \in DOMAIN task[t].snapshot : Gone(id)

\* C9: when cleanup has returned Ok with no other operation running beside it,
\* running_processes is empty and no registered container is Running.
C9_CleanupStopsEverything ==
    \A t \in Tasks :
        (task[t].pc = "ret" /\ task[t].op = "cleanup" /\ task[t].res = Ok /\ task[t].solo)
        => /\ DOMAIN running_processes = {}
           /\ \A id \in DOMAIN registry : registry[id].state # "Running"

\* cleanup found a Running container and returned Ok.
C9_Witness ==
    \E t \in Tasks :
        /\ task[t].pc = "ret" /\ task[t].op = "cleanup" /\ task[t].res = Ok /\ task[t].solo
        /\ \E id \in DOMAIN task[t].snapshot : is_running(task[t].snapshot[id])

C11_AddressesPerConfigAndDistinct ==
    /\ \A c \in DOMAIN allocated_ips :
          LET fam == [i \in DOMAIN allocated_ips[c] |-> allocated_ips[c][i].family]
          IN CASE network_config = "IPv4" -> fam = <<"v4">>
               [] network_config = "IPv6" -> fam = <<"v6">>
               [] OTHER -> fam = <<"v4", "v6">>
    /\ \A c \in DOMAIN allocated_ips : \A d \in DOMAIN allocated_ips \ {c} :
          Range(allocated_ips[c]) \cap Range(allocated_ips[d]) = {}

\* DualStack with three containers set up, one of them after an earlier one
\* was cleaned up (it holds a host part lower than a container set up before it).
C11_Witness ==
    /\ network_config = "DualStack"
    /\ Cardinality(DOMAIN allocated_ips) = 3
    /\ \E c \in DOMAIN allocated_ips : \E d \in DOMAIN allocated_ips :
          c > d /\ allocated_ips[c][1].host < allocated_ips[d][1].host

\* The host ports the configuration of registered container c declares.
HostPorts(c) == {registry[c].config.ports[i].host_port : i \in DOMAIN registry[c].config.ports}

\* No create_container call is between its network setup and its registration.
NoCreateInProgress == \A t \in Tasks : task[t].pc \notin {"create_net", "create_reg"}

\* C12: (with no create in progress) every host port of port_mappings is
\* declared by exactly one registered container, and every host port a
\* Running container declares is a key of port_mappings.
C12_PortMappingsMatchRegistry ==
    NoCreateInProgress
    => /\ \A p \in DOMAIN port_mappings :
             Cardinality({c \in DOMAIN registry : p \in HostPorts(c)}) = 1
       /\ \A c \in DOMAIN registry :
             registry[c].state = "Running" => HostPorts(c) \subseteq DOMAIN port_mappings

\* The error of a host-port conflict, for every host port a caller can pass.
PortInUseErrors ==
    UNION {{Err("NetworkError",
                "Port " \o ToString(cfg.ports[i].host_port) \o " is already in use") :
               i \in DOMAIN cfg.ports} : cfg \in Configs}

\* A registered container other than id, in one of the given states, declares
\* a host port that ports declares too.
SharesPort(id, ports, states) ==
    \E c \in DOMAIN registry \ {id} :
        /\ registry[c].state \in states
        /\ \E i \in DOMAIN ports : ports[i].host_port \in HostPorts(c)

\* C13: a container whose host port another registered container declares
\* can still be created (create does not fail for the port), and starting it
\* while the other one runs does not succeed and leaves it Created.
C13_PortConflictShowsAtStart ==
    \A t \in Tasks :
        task[t].pc = "ret"
        => /\ (task[t].op = "create"
               /\ SharesPort(task[t].id, task[t].cfg.ports,
                             {"Created", "Running", "Paused", "Stopped"}))
              => task[t].res \notin PortInUseErrors
           /\ (task[t].op = "start" /\ task[t].seen = "Created"
               /\ task[t].id \in DOMAIN registry
               /\ SharesPort(task[t].id, registry[task[t].id].config.ports, {"Running"}))
              => /\ task[t].res # Ok
                 /\ registry[task[t].id].state = "Created"

\* The results a failing step of create_container returns: of the security
\* validation, of the config validation, of the filesystem steps and of the
\* network setup.
CreateErrorKinds == {"SecurityError", "RuntimeError", "IoError", "NetworkError"}

\* C14: when a step of create fails, create returns that step's error, the
\* registry is unchanged by the failing step and the container is not
\* registered.
C14_FailedCreateNotRegistered ==
    [][\A t \in Tasks :
          (/\ task[t].pc \in {"idle", "create_net"}
           /\ task'[t].pc = "ret"
           /\ task'[t].op \in {"create", "deploy"})
          => /\ task'[t].res.kind \in CreateErrorKinds
             /\ registry' = registry
             /\ task'[t].id \notin DOMAIN registry']_vars

\* A create has failed in its network setup, after the filesystem steps.
C14_Witness ==
    \E t \in Tasks :
        /\ task[t].pc = "ret" /\ task[t].op = "create"
        /\ task[t].res.kind = "NetworkError"
        /\ task[t].id \in fs_roots
        /\ task[t].id \notin DOMAIN registry

\* The ids the network maps refer to.
NetworkIds ==
    DOMAIN allocated_ips \cup DOMAIN container_ports
    \cup {port_mappings[p] : p \in DOMAIN port_mappings}

\* C15: when a create has failed, no network entry refers to the id of the
\* container it was creating and that container's root directory does not
\* exist; with no create in progress, every id the network maps refer to is
\* a registered container.
C15_FailedCreateLeavesNoResidue ==
    /\ \A t \in Tasks :
          (task[t].pc = "ret" /\ task[t].op = "create" /\ task[t].res # Ok)
          => task[t].id \notin NetworkIds \cup fs_roots
    /\ NoCreateInProgress => NetworkIds \subseteq DOMAIN registry

\* The configurations the policy rejects: a volume whose host path is under
\* a restricted prefix, a resource limit above its maximum, a privileged host
\* port, a uid or gid above 65535.
AgainstPolicy(sc) ==
    \/ \E i \in DOMAIN sc.volumes :
          \E r \in {"/etc/passwd", "/etc/shadow", "/etc/group", "/proc", "/sys"} :
             Len(sc.volumes[i].host_path) >= Len(r)
             /\ SubSeq(sc.volumes[i].host_path, 1, Len(r)) = r
    \/ \E m \in sc.resources.memory_mb : m > 2048
    \/ \E c \in sc.resources.cpu_quota : c > 100
    \/ \E n \in sc.resources.max_processes : n > 512
    \/ \E i \in DOMAIN sc.ports : sc.ports[i].host_port < 1024
    \/ \E u \in sc.uid \cup sc.gid : u > 65535

\* What does hold of a rejected configuration: SecurityError, nothing
\* registered, no root directory, the network maps as they were (empty).
PolicyRejectionLeavesRuntimeUntouched ==
    (probe.res # NoResult /\ AgainstPolicy(probe.cfg))
    => /\ probe.res.kind = "SecurityError"
       /\ registry = EmptyMap
       /\ fs_roots = {}
       /\ allocated_ips = EmptyMap /\ port_mappings = EmptyMap /\ container_ports = EmptyMap

C17_NamesUnique ==
    \A a, b \in DOMAIN registry :
        registry[a].config.name = registry[b].config.name => a = b

\* The leader pid is no longer a live process.
NotAlive(procs, pid) == pid \notin DOMAIN procs \/ procs[pid] = "exited"

\* C18: a stop(id, force=true) that returns Ok for a Running container, no
\* other call running beside it, leaves its leader dead, the container
\* Stopped and no process handle for it.
C18_ForceStopKillsLeader ==
    [][\A t \in Tasks :
         (/\ task[t].pc = "stop_process" /\ task[t].op = "stop" /\ task[t].force
          /\ task'[t].pc = "ret" /\ task'[t].res = Ok /\ task'[t].solo)
         => LET id == task[t].id
            IN /\ registry[id].state = "Running"
               /\ registry'[id].state = "Stopped"
               /\ id \notin DOMAIN running_processes'
               /\ NotAlive(os_procs', registry[id].pid)]_vars

RemoveUnderWay(rec) ==
    /\ rec.op = "remove"
    /\ rec.pc \in {"stop_acquire", "stop_process", "stop_wait", "remove_net", "remove_reg"}

\* C20: operations on one id are serialized; in particular, between a
\* remove's state check and its removal from the registry no step of
\* another start, stop, pause, resume or remove of that id changes the
\* record of that id.
C20_RemoveIsAtomic ==
    [][\A t \in Tasks :
         (/\ RemoveUnderWay(task[t])
          /\ task'[t].pc = task[t].pc
          /\ task[t].id \in DOMAIN registry
          /\ \E u \in Tasks \ {t} :
                /\ task'[u].pc # task[u].pc
                /\ task'[u].op \in {"start", "stop", "pause", "resume", "remove"}
                /\ task'[u].id = task[t].id)
         => /\ task[t].id \in DOMAIN registry'
            /\ registry'[task[t].id] = registry[task[t].id]]_vars

\* C21: a remove that fails after its check, no other call running beside
\* it, returns the error with the record still registered and in state
\* Error.
C21_FailedRemoveMarksError ==
    [][\A t \in Tasks :
         (/\ RemoveUnderWay(task[t])
          /\ task'[t].pc = "ret" /\ task'[t].res # Ok /\ task'[t].solo)
         => /\ task[t].id \in DOMAIN registry'
            /\ registry'[task[t].id].state = "Error"]_vars

\* The lowest host part from 2 upward that no address of the family in taken
\* has.
LowestFree(taken, family) ==
    CHOOSE h \in 2..(2 + Cardinality(taken)) :
        /\ IpAddr(family, h) \notin taken
        /\ \A g \in 2..(h - 1) : IpAddr(family, g) \in taken

\* C22: a container that gets its addresses gets, in each configured family,
\* the lowest host part from 2 upward that no container holds at that moment.
C22_LowestFreeAddress ==
    [][\A id \in Ids \cup {UnknownId} :
         (id \notin DOMAIN allocated_ips /\ id \in DOMAIN allocated_ips')
         => \A i \in DOMAIN allocated_ips'[id] :
               allocated_ips'[id][i].host =
                   LowestFree(TakenIps(allocated_ips), allocated_ips'[id][i].family)]_vars

\* Three containers set up on a DualStack manager hold .2, .3, .4 and ::2,
\* ::3, ::4.
C22_Witness ==
    /\ network_config = "DualStack"
    /\ DOMAIN allocated_ips = 1..3
    /\ \A c \in 1..3 :
          allocated_ips[c] = <<IpAddr("v4", c + 1), IpAddr("v6", c + 1)>>

\* C23: a logs(id) that passed its check on a Running record, no other call
\* running beside it, returns the output only if the leader has exited; if
\* the leader is alive it returns ProcessError("Container is still running")
\* and the process handle and the record stay in place.
C23_LogsOnlyAfterExit ==
    [][\A t \in Tasks :
         (/\ task[t].pc = "logs_process" /\ task'[t].pc = "ret" /\ task'[t].solo
          /\ task[t].id \in DOMAIN registry
          /\ registry[task[t].id].state = "Running")
         => LET id == task[t].id
                alive == ~NotAlive(os_procs, registry[id].pid)
            IN /\ task'[t].res = Ok => ~alive
               /\ alive => /\ task'[t].res = Err("ProcessError", "Container is still running")
                           /\ id \in DOMAIN running_processes'
                           /\ running_processes' = running_processes
                           /\ registry' = registry]_vars

\* What does hold: the same for a logs(id) that finds the process handle.
LogsWithHandleOnlyAfterExit ==
    [][\A t \in Tasks :
         (/\ task[t].pc = "logs_process" /\ task'[t].pc = "ret"
          /\ task[t].id \in DOMAIN running_processes)
         => LET id == task[t].id
                alive == ~NotAlive(os_procs, running_processes[id])
            IN /\ task'[t].res = Ok => ~alive
               /\ alive => /\ task'[t].res = Err("ProcessError", "Container is still running")
                           /\ running_processes' = running_processes
                           /\ registry' = registry]_vars

\* The steps of stop_container and of start_container.
StopPcs == {"stop_process", "stop_wait"}
StartPcs == {"start_acquire", "start_process"}

\* C24: restart(id) begins with the graceful stop and a Running record takes
\* it past the state check; the stop either fails, and restart returns its
\* error with nothing started, or succeeds, leaving the record Stopped, and
\* only then come the sleep and the start; a start that succeeds sets the
\* record Running with a fresh leader pid and started_at set anew.
C24_RestartIsStopThenStart ==
    [][\A t \in Tasks :
         LET id == task'[t].id
             old == task[t].pc
             new == task'[t].pc
         IN (task'[t].op = "restart" /\ new # old) =>
            /\ old = "idle" =>
                  /\ new \in {"stop_process", "ret"}
                  /\ ~task'[t].force
                  /\ StateOf(id) = "Running" => new = "stop_process"
                  /\ new = "ret" => task'[t].res # Ok /\ UNCHANGED <<registry, procVars>>
            /\ old \in StopPcs =>
                  /\ new \in StopPcs \cup {"restart_sleep", "ret"}
                  /\ new = "restart_sleep" => registry'[id].state = "Stopped"
                  /\ new = "ret" => /\ task'[t].res # Ok
                                    /\ UNCHANGED <<registry, next_pid>>
            /\ new = "restart_sleep" => old \in StopPcs
            /\ new = "start_acquire" => old = "restart_sleep"
            /\ new = "start_process" => old = "start_acquire"
            /\ (old = "start_process" /\ task'[t].res = Ok) =>
                  /\ registry'[id] = set_state(set_pid(registry[id], next_pid), "Running")
                  /\ registry'[id].state = "Running"
                  /\ registry'[id].pid \notin DOMAIN os_procs
                  /\ registry'[id].started_at
                  /\ os_procs'[registry'[id].pid] = "running"
            /\ (new = "ret" /\ task'[t].res = Ok) => old = "start_process"]_vars

\* A restart of a Running container has returned Ok: the first leader is
\* gone and the record is Running with the second pid.
C24_Witness ==
    \E t \in Tasks :
        /\ task[t].pc = "ret" /\ task[t].op = "restart" /\ task[t].res = Ok
        /\ registry[task[t].id].state = "Running"
        /\ registry[task[t].id].pid = 2
        /\ 1 \notin DOMAIN os_procs

\* C25: set_web_defaults(port) appends {host_port = port, container_port =
\* 8080, tcp} to the ports, sets PORT=8080 and NODE_ENV=production and leaves
\* the other variables, sets restart_policy Always, and sets memory_mb = 256
\* and cpu_quota = 0.5 only where they were unset; a deploy_web_app(name,
\* image, port) that returns Ok has registered one container with the default
\* configuration so changed, and it is Running.
C25_DeployWebApp ==
    LET base == probe.base
        cfg == probe.cfg
        AsWebDefaults ==
            /\ Len(cfg.ports) = Len(base.ports) + 1
            /\ SubSeq(cfg.ports, 1, Len(base.ports)) = base.ports
            /\ cfg.ports[Len(cfg.ports)] =
                  [host_port |-> probe.port, container_port |-> 8080, protocol |-> "tcp"]
            /\ {"PORT", "NODE_ENV"} \cup DOMAIN base.environment \subseteq DOMAIN cfg.environment
            /\ cfg.environment["PORT"] = "8080"
            /\ cfg.environment["NODE_ENV"] = "production"
            /\ \A var \in DOMAIN base.environment \ {"PORT", "NODE_ENV"} :
                  cfg.environment[var] = base.environment[var]
            /\ cfg.restart_policy = "Always"
            /\ cfg.resources.memory_mb =
                  IF base.resources.memory_mb = {} THEN {256} ELSE base.resources.memory_mb
            /\ cfg.resources.cpu_quota =
                  IF base.resources.cpu_quota = {} THEN {50} ELSE base.resources.cpu_quota
            /\ cfg.name = base.name /\ cfg.image = base.image
    IN /\ (probe.op = "set_web_defaults" /\ probe.res = Ok)
          => AsWebDefaults /\ DOMAIN cfg.environment \subseteq
                                 {"PORT", "NODE_ENV"} \cup DOMAIN base.environment
       /\ (probe.op = "deploy_web_app" /\ probe.res = Ok)
          => /\ AsWebDefaults
             /\ cfg.resources.memory_mb = {512} /\ cfg.resources.cpu_quota = {100}
             /\ DOMAIN registry = {1}
             /\ registry[1].config = cfg
             /\ registry[1].state = "Running"
             /\ 1 \in DOMAIN running_processes
             /\ registry[1].pid = running_processes[1]
       /\ (probe.op = "deploy_web_app" /\ probe.res = NoResult) => registry = EmptyMap

\* deploy_web_app("web", "./img", 8080) has returned Ok.
C25_Witness ==
    /\ probe.op = "deploy_web_app" /\ probe.res = Ok
    /\ probe.port = 8080
    /\ registry[1].state = "Running"
    /\ registry[1].config.ports = <<TcpPortMapping(8080, 8080)>>

\* C26: a create whose configuration passes the security checks and has an
\* empty name or a zero port fails with ConfigError, and no other create
\* fails with a configuration error.
C26_ValidateIsConfigError ==
    \A t \in Tasks :
        (/\ task[t].pc = "ret" /\ task[t].op = "create"
         /\ \A i \in DOMAIN task[t].cfg.ports : task[t].cfg.ports[i].host_port >= 1024)
        => LET cfg == task[t].cfg
               invalid == \/ cfg.name = ""
                          \/ \E i \in DOMAIN cfg.ports :
                                cfg.ports[i].host_port = 0 \/ cfg.ports[i].container_port = 0
           IN /\ invalid => task[t].res.kind = "ConfigError"
              /\ task[t].res.kind \in {"ConfigError", "RuntimeError"} => invalid

\* The place of each lock in the order Registry, Network, Process.
LockRank(l) == CASE l = "registry" -> 1 [] l = "network" -> 2 [] l = "process" -> 3

\* C27: a call that is about to ask for a lock holds only locks that come
\* before it in the order Registry, Network, Process, so never that lock
\* itself.
C27_LockOrder ==
    \A t \in Tasks :
        Requests(task[t]) # "none"
        => \A h \in Held(t) : LockRank(h) < LockRank(Requests(task[t]))

\* A stop holds the Registry lock and is about to ask for the Process lock.
C27_Witness ==
    \E t \in Tasks :
        /\ task[t].pc = "stop_process"
        /\ Held(t) = {"registry"}

\* C28: under fair scheduling every call that has begun returns.
C28_EveryCallReturns ==
    \A t \in Tasks : (task[t].pc \notin {"idle", "ret"}) ~> (task[t].pc = "ret")

\* A call is about to ask for a lock that the other task's call holds.
C28_Witness ==
    \E t \in Tasks : \E u \in Tasks \ {t} :
        /\ Requests(task[t]) # "none"
        /\ Requests(task[t]) \in Held(u)
        /\ task[u].pc = "stop_wait"

\* C29: a call that is waiting for an external process holds no lock; in
\* particular a graceful stop holds none while it waits for its leader.
C29_NoLockHeldWhileWaiting ==
    \A t \in Tasks : task[t].pc = "stop_wait" => Held(t) = {}

\* The process map agrees with the record of id: there is a handle for id
\* exactly when the container is Running or Paused.
HandleAgrees(reg, running, id) ==
    id \in DOMAIN running <=> (id \in DOMAIN reg /\ reg[id].state \in {"Running", "Paused"})

\* C30: when the call a task is running is dropped at a suspension point, no
\* other call running beside it, the process map agrees with the record of
\* the container the call was about.
C30_DropLeavesConsistentState ==
    [][\A t \in Tasks :
         (/\ task[t].pc \notin {"idle", "ret"} /\ task'[t].pc = "idle"
          /\ task[t].solo
          /\ task[t].id \in DOMAIN registry)
         => /\ registry' = registry
            /\ HandleAgrees(registry', running_processes', task[t].id)]_vars

\* C31: in the leader child, whenever the config gives a uid together with a
\* gid or groups, setgid and setgroups are called before setuid.
C31_GroupsBeforeUid ==
    \A i, j \in DOMAIN probe.ran :
        (probe.ran[i] = "setuid" /\ probe.ran[j] \in {"setgid", "setgroups"}) => j < i

\* C32: the mapping writes uid_map, then "deny" to setgroups, then gid_map,
\* each map being "<container id> <host id> 1"; the writes that went through
\* are a prefix of that sequence, the result is Ok exactly when all three
\* did and a SecurityError otherwise, so gid_map is never written without
\* the deny before it.
C32_MappingOrder ==
    LET plan == <<[file |-> "uid_map",
                   content |-> ToString(probe.container_uid) \o " "
                               \o ToString(probe.host_uid) \o " 1"],
                  [file |-> "setgroups", content |-> "deny"],
                  [file |-> "gid_map",
                   content |-> ToString(probe.container_gid) \o " "
                               \o ToString(probe.host_gid) \o " 1"]>>
        n == Len(probe.writes)
    IN /\ n <= 3
       /\ probe.writes = SubSeq(plan, 1, n)
       /\ probe.res # NoResult =>
             /\ probe.res = Ok <=> n = 3
             /\ probe.res # Ok => probe.res.kind = "SecurityError"
       /\ \A i \in DOMAIN probe.writes :
             probe.writes[i].file = "gid_map"
             => \E j \in 1..(i - 1) : probe.writes[j] = [file |-> "setgroups", content |-> "deny"]

\* The setgroups write failed: only uid_map "0 1000 1" was written and the
\* result is the SecurityError.
C32_Witness ==
    /\ probe.res = Err("SecurityError", "Failed to deny setgroups")
    /\ probe.writes = <<[file |-> "uid_map", content |-> "0 1000 1"]>>


\* The host parts held in a single-family manager.
HostsTaken == {allocated_ips[c][1].host : c \in DOMAIN allocated_ips}

\* C33: the address scan never assigns a host part below 2 and never wraps
\* its counter.  At every point of allocate_ips on a nearly full subnet the
\* counter lies between 2 and its stop value (255 for IPv4, 0xFFFF for IPv6),
\* every address held has a host part from 2 to one below the stop value, a
\* successful allocation gives the new container the candidate the counter
\* stands at, and a failed one is a NetworkError, happens with every usable
\* host part taken and the counter at its stop value, and adds no entry to
\* allocated_ips.
C33_ScanNeverWraps ==
    LET family == FamilyOf(network_config)
        stop == StopOf(family)
    IN /\ probe.s \in 2..stop
       /\ \A c \in DOMAIN allocated_ips :
             /\ Len(allocated_ips[c]) = 1
             /\ allocated_ips[c][1].family = family
             /\ allocated_ips[c][1].host \in 2..(stop - 1)
       /\ probe.res.kind \in {"none", "Ok", "NetworkError"}
       /\ probe.res.kind = "none" => probe.id \notin DOMAIN allocated_ips
       /\ probe.res.kind = "Ok" =>
             /\ probe.id \in DOMAIN allocated_ips
             /\ allocated_ips[probe.id] = <<IpAddr(family, probe.s)>>
             /\ \A c \in DOMAIN allocated_ips \ {probe.id} :
                   allocated_ips[c] # allocated_ips[probe.id]
       /\ probe.res.kind = "NetworkError" =>
             /\ probe.s = stop
             /\ probe.id \notin DOMAIN allocated_ips
             /\ HostsTaken = 2..(stop - 1)

\* An IPv4 allocation has failed with the 8-bit counter at 255 and every
\* suffix from 2 to 254 taken.
C33_Witness ==
    /\ probe.op = "allocate_ips"
    /\ network_config = "IPv4"
    /\ probe.res.kind = "NetworkError"
    /\ probe.s = 255
    /\ HostsTaken = 2..254


\* The timestamps of a record agree with its state.
TimestampsAgree(c) ==
    /\ c.stopped_at <=> c.state = "Stopped"
    /\ ~c.started_at <=> c.state = "Created"

\* C34: every entry of a registered container into Running (first start,
\* start after stop, resume) sets started_at and clears stopped_at, and every
\* entry into Stopped sets stopped_at and clears the leader pid; in every
\* state stopped_at is present exactly when the state is Stopped and
\* started_at is absent exactly when the state is Created.
C34_TimestampsFollowState ==
    /\ [](\A id \in DOMAIN registry : TimestampsAgree(registry[id]))
    /\ [][\A id \in DOMAIN registry' :
             LET was == IF id \in DOMAIN registry THEN registry[id].state ELSE "Created"
                 c == registry'[id]
             IN /\ c.state = "Running" /\ was # "Running" =>
                      c.started_at /\ ~c.stopped_at
                /\ c.state = "Stopped" /\ was # "Stopped" =>
                      c.stopped_at /\ c.pid = None
                /\ c.state = was /\ id \in DOMAIN registry =>
                      /\ c.started_at = registry[id].started_at
                      /\ c.stopped_at = registry[id].stopped_at]_vars

\* The only container ever created is Running on its second leader: it was
\* started, stopped and started again, and its stopped_at is cleared.
C34_Witness ==
    \E id \in DOMAIN registry :
        /\ next_id = 2
        /\ registry[id].state = "Running"
        /\ registry[id].pid = 2
        /\ registry[id].started_at
        /\ ~registry[id].stopped_at
        /\ \A t \in Tasks : task[t].pc = "idle"

\* The values among those drawn that contain "..", "/etc" or "/usr".
DangerousValues == {"../a.so", "/opt/etc", "/opt/../lib", "/etc/ld.so", "/usr/lib", "usr/etc.."}

\* C35: sanitize_environment removes LD_PRELOAD and LD_LIBRARY_PATH exactly
\* when their value contains "..", "/etc" or "/usr", keeps every other entry
\* of the caller's map, and always ends with TURBINE_CONTAINER=true,
\* TURBINE_ROOTLESS=true and HOME=/app whatever the caller supplied; a second
\* application gives the map of the first.
C35_SanitizeEnvironment ==
    probe.n >= 1 =>
       LET forced == {"TURBINE_CONTAINER", "TURBINE_ROOTLESS", "HOME"}
           loader == {"LD_PRELOAD", "LD_LIBRARY_PATH"}
           given == probe.given
           out == probe.first
       IN /\ \A var \in loader :
                var \in DOMAIN out <=> (var \in DOMAIN given /\ given[var] \notin DangerousValues)
          /\ \A var \in DOMAIN given \ (loader \cup forced) : var \in DOMAIN out
          /\ DOMAIN out \subseteq DOMAIN given \cup forced
          /\ \A var \in DOMAIN out \ forced : out[var] = given[var]
          /\ forced \subseteq DOMAIN out
          /\ out["TURBINE_CONTAINER"] = "true"
          /\ out["TURBINE_ROOTLESS"] = "true"
          /\ out["HOME"] = "/app"
          /\ probe.n = 1 => probe.env = out
          /\ probe.n = 2 => probe.env = out

\* Sanitized twice: a map that gave a dangerous LD_PRELOAD, a harmless
\* LD_LIBRARY_PATH, a HOME and a PATH naming /usr and /etc.
C35_Witness ==
    /\ probe.op = "sanitize_environment"
    /\ probe.n = 2
    /\ {"LD_PRELOAD", "LD_LIBRARY_PATH", "HOME", "PATH"} \subseteq DOMAIN probe.given
    /\ probe.given["LD_PRELOAD"] = "/opt/../lib"
    /\ probe.given["LD_LIBRARY_PATH"] = "usr.etc"
    /\ probe.given["HOME"] = "/root"
    /\ "LD_PRELOAD" \notin DOMAIN probe.env
    /\ "LD_LIBRARY_PATH" \in DOMAIN probe.env
    /\ "PATH" \in DOMAIN probe.env


\* C36: whenever no operation is in progress, the ids keyed in
\* running_processes are exactly the registered containers whose state is
\* Running or Paused.
C36_HandlesMatchRunningContainers ==
    (\A t \in Tasks : task[t].pc = "idle") =>
        DOMAIN running_processes =
            {id \in DOMAIN registry : registry[id].state \in {"Running", "Paused"}}


\* C37: when stop(id, force) returns an error the process map is as it was
\* when the call was made: at the step on which a stop returns an error, the
\* handle the operation took out while waiting is keyed by id again, and a
\* stop that fails on any other step leaves running_processes unchanged.
C37_FailedStopKeepsHandle ==
    [][\A t \in Tasks :
          (/\ task'[t].op = "stop"
           /\ task'[t].pc = "ret"
           /\ task[t].pc # "ret"
           /\ task'[t].res.kind # "Ok")
          => IF task[t].pc = "stop_wait"
             THEN /\ task[t].id \in DOMAIN running_processes'
                  /\ running_processes'[task[t].id] = task[t].child
             ELSE running_processes' = running_processes]_vars


\* C38: a successful logs(id) is read-only: the step on which logs returns Ok
\* leaves the container's record and the process map unchanged (so that the
\* handle it read from is there for the next logs(id)).
C38_LogsIsReadOnly ==
    [][\A t \in Tasks :
          (/\ task'[t].op = "logs"
           /\ task'[t].pc = "ret"
           /\ task[t].pc # "ret"
           /\ task'[t].res = Ok)
          => /\ registry' = registry
             /\ running_processes' = running_processes]_vars


\* C39: in every state with no operation in progress, every container in the
\* registry has its root directory on disk and its entries in allocated_ips
\* and container_ports.
C39_RegisteredContainersKeepResources ==
    (\A t \in Tasks : task[t].pc = "idle") =>
        \A id \in DOMAIN registry :
            /\ id \in fs_roots
            /\ id \in DOMAIN allocated_ips
            /\ id \in DOMAIN container_ports

====
